---- MODULE Spec2Model ----
(***************************************************************************)
(* Runtime core of the runner game: the scene StateMachine                 *)
(* (src/src/core/StateMachine.ts) and the EntityFactory with its pools,    *)
(* pattern selection and collision resolution                              *)
(* (src/my-runner/src/entities/EntityFactory.ts, Obstacle, Item), the      *)
(* ProgressManager and the PlayScene's frame (src/unnamed/part_001).       *)
(***************************************************************************)
EXTENDS Integers, Sequences, FiniteSets, TLC

VARIABLES
    \* ---- StateMachine fields ----
    states,            \* Map<string, State>: name -> state object, NoState when unregistered
    stateStack,        \* string[]
    currentState,      \* State | null
    currentStateName,  \* string | null
    transitions,       \* StateTransition[]
    smLast,            \* the last StateMachine call: what it returned and which callbacks it invoked
    \* ---- EntityFactory ----
    factory,           \* the EntityFactory object and the Obstacle/Item instances it made
    scenario,          \* what the driver of the factory does (fixed by Init)
    fLast,             \* the last EntityFactory call and what it returned
    poolTrack,         \* the last sweep's releases and the acquires made since
    \* ---- ProgressManager ----
    pm,                \* the ProgressManager object
    localStorage,      \* what localStorage holds under 'geometricDash_progress'
    clock,             \* scene.time.now, in milliseconds
    pLast,             \* the last ProgressManager call and what it returned
    granted,           \* unlocks and milestone bonuses of the session, by name
    \* ---- PlayScene ----
    scene              \* the PlayScene's own fields and the calls of its last tick

smVars == <<states, stateStack, currentState, currentStateName, transitions, smLast>>

factoryVars == <<factory, scenario, fLast, poolTrack>>

progressVars == <<pm, localStorage, clock, pLast, granted>>

sceneVars == <<scene>>

vars == <<states, stateStack, currentState, currentStateName, transitions, smLast,
          factory, scenario, fLast, poolTrack, pm, localStorage, clock, pLast, granted, scene>>

(***************************************************************************)
(* StateMachine                                                            *)
(***************************************************************************)

\* Bounds of the model.
MaxStack == 2
MaxTransitions == 3

\* Names a caller may pass.  The empty string is a legal Map key in
\* TypeScript and is falsy in the `if (this.currentStateName)` test.
StateNames == {"playing", "paused", ""}

\* State objects a caller may register.  "full" implements the optional
\* pause/resume (like PlayScene and the MockState of the tests), "bare" does
\* not (like the inline states PlayScene registers).
StateObjs == {"full", "bare"}

NoState == "null"
NoName == "null"

HasPause(s) == s = "full"

HasResume(s) == s = "full"

\* JavaScript truthiness of `currentStateName: string | null`.
Truthy(name) == name # NoName /\ name # ""

Call(method, s) == <<method, s>>

Last(seq) == seq[Len(seq)]

Front(seq) == SubSeq(seq, 1, Len(seq) - 1)

\* logTransition: from = the previous entry's `to`, or 'none'.
logTransition(ts, toState) ==
    Append(ts, [from |-> IF Len(ts) > 0 THEN Last(ts).to ELSE "none",
                to   |-> toState])

\* What a call leaves in smLast: the call, its result, the callbacks it made
\* (in order), and the state it started from.
SmCall(op, arg, ret, calls) ==
    [op |-> op, arg |-> arg, ret |-> ret, calls |-> calls,
     preName |-> currentStateName, preState |-> currentState,
     preDepth |-> Len(stateStack)]

\* smLast keeps the call just made and the one before it.
SmRecord(op, arg, ret, calls) ==
    [call |-> SmCall(op, arg, ret, calls), prev |-> smLast.call]

\* Before any call: the constructor.
NewCall ==
    [op |-> "new", arg |-> NoName, ret |-> TRUE, calls |-> <<>>,
     preName |-> NoName, preState |-> NoState, preDepth |-> 0]

SmInit ==
    /\ states = [n \in StateNames |-> NoState]
    /\ stateStack = <<>>
    /\ currentState = NoState
    /\ currentStateName = NoName
    /\ transitions = <<>>
    /\ smLast = [call |-> NewCall, prev |-> NewCall]

\* `const state = this.states.get(name); if (!state) ...`
Registered_Unchecked(name) == TRUE

Registered(name) == states[name] # NoState

addState(name, state) ==
    /\ states' = [states EXCEPT ![name] = state]
    /\ smLast' = SmRecord("add", name, TRUE, <<>>)
    /\ UNCHANGED <<stateStack, currentState, currentStateName, transitions>>

\* pushState exiting the current state instead of pausing it.
PushCalls_ExitPrevious(state) ==
    (IF currentState # NoState THEN <<Call("exit", currentState)>> ELSE <<>>)
    \o <<Call("enter", state)>>

\* The callbacks pushState makes: pause on the current state when it has one,
\* then (transitionTo) enter on the new state.
PushCalls(state) ==
    (IF currentState # NoState /\ HasPause(currentState)
        THEN <<Call("pause", currentState)>> ELSE <<>>)
    \o <<Call("enter", state)>>

\* The stack after pushState's `if (this.currentStateName) push(...)`.
PushStack ==
    IF Truthy(currentStateName) THEN Append(stateStack, currentStateName)
                                ELSE stateStack

pushState(name) ==
    LET state == states[name] IN
    IF ~Registered(name)
    THEN /\ smLast' = SmRecord("push", name, FALSE, <<>>)
         /\ UNCHANGED <<states, stateStack, currentState, currentStateName, transitions>>
    ELSE /\ Len(PushStack) <= MaxStack
         /\ Len(transitions) < MaxTransitions
         /\ stateStack' = PushStack
         /\ currentState' = state
         /\ currentStateName' = name
         /\ transitions' = logTransition(transitions, name)
         /\ smLast' = SmRecord("push", name, TRUE, PushCalls(state))
         /\ UNCHANGED states

\* replaceState without the exit of the current state.
ReplaceCalls_NoExit(state) == <<Call("enter", state)>>

\* The callbacks replaceState makes: exit on the current state, then
\* (transitionTo) enter on the new state.
ReplaceCalls(state) ==
    (IF currentState # NoState THEN <<Call("exit", currentState)>> ELSE <<>>)
    \o <<Call("enter", state)>>

replaceState(name) ==
    LET state == states[name] IN
    IF ~Registered(name)
    THEN /\ smLast' = SmRecord("replace", name, FALSE, <<>>)
         /\ UNCHANGED <<states, stateStack, currentState, currentStateName, transitions>>
    ELSE /\ Len(transitions) < MaxTransitions
         /\ currentState' = state
         /\ currentStateName' = name
         /\ transitions' = logTransition(transitions, name)
         /\ smLast' = SmRecord("replace", name, TRUE, ReplaceCalls(state))
         /\ UNCHANGED <<states, stateStack>>

ExitCalls == IF currentState # NoState THEN <<Call("exit", currentState)>> ELSE <<>>

ResumeCalls_Never(state) == <<>>

ResumeCalls(state) == IF HasResume(state) THEN <<Call("resume", state)>> ELSE <<>>

\* popState with the exit of the current state moved before the stack test.
popState_ExitFirst ==
    IF Len(stateStack) = 0
    THEN /\ smLast' = SmRecord("pop", NoName, FALSE, ExitCalls)
         /\ UNCHANGED <<states, stateStack, currentState, currentStateName, transitions>>
    ELSE LET previousStateName == Last(stateStack)
             previousState == states[previousStateName]
         IN  /\ stateStack' = Front(stateStack)
             /\ Len(transitions) < MaxTransitions
             /\ currentState' = previousState
             /\ currentStateName' = previousStateName
             /\ transitions' = logTransition(transitions, previousStateName)
             /\ smLast' = SmRecord("pop", NoName, TRUE,
                                   ExitCalls \o ResumeCalls(previousState))
             /\ UNCHANGED states

popState ==
    IF Len(stateStack) = 0
    THEN /\ smLast' = SmRecord("pop", NoName, FALSE, <<>>)
         /\ UNCHANGED <<states, stateStack, currentState, currentStateName, transitions>>
    ELSE LET previousStateName == Last(stateStack)
             previousState == states[previousStateName]
         IN  /\ stateStack' = Front(stateStack)
             /\ IF previousState = NoState
                THEN /\ smLast' = SmRecord("pop", NoName, FALSE, ExitCalls)
                     /\ UNCHANGED <<currentState, currentStateName, transitions>>
                ELSE /\ Len(transitions) < MaxTransitions
                     /\ currentState' = previousState
                     /\ currentStateName' = previousStateName
                     /\ transitions' = logTransition(transitions, previousStateName)
                     /\ smLast' = SmRecord("pop", NoName, TRUE,
                                           ExitCalls \o ResumeCalls(previousState))
             /\ UNCHANGED states

\* update forwarded to the covered states as well.
UpdateCalls_Stacked ==
    (IF currentState # NoState THEN <<Call("update", currentState)>> ELSE <<>>)
    \o [i \in 1..Len(stateStack) |-> Call("update", states[stateStack[i]])]

UpdateCalls == IF currentState # NoState THEN <<Call("update", currentState)>> ELSE <<>>

smUpdate ==
    /\ smLast' = SmRecord("update", NoName, TRUE, UpdateCalls)
    /\ UNCHANGED <<states, stateStack, currentState, currentStateName, transitions>>

reset ==
    /\ currentState' = NoState
    /\ currentStateName' = NoName
    /\ stateStack' = <<>>
    /\ transitions' = <<>>
    /\ smLast' = SmRecord("reset", NoName, TRUE, ExitCalls)
    /\ UNCHANGED states

(***************************************************************************)
(* EntityFactory, Obstacle, Item                                           *)
(***************************************************************************)

\* Bounds of the model.  The code's pools start with 20 obstacles and 30
\* items; the model scales both to PoolSize.
PoolSize == 2
MaxInstances == 3
MaxActive == 3
MaxTweens == 2

\* Program constants.
ScreenLeft == -200
Parked == -1000
ObstacleSize == 32
ItemSize == 24
HitboxW == 28
HitboxH == 42
DefaultItemValue == 1
PlayerStartX == 100
PlayerStartY == 450

Min(S) == CHOOSE m \in S : \A k \in S : m <= k

Range(seq) == {seq[i] : i \in DOMAIN seq}

\* An optional value is a sequence of length 0 (absent) or 1.
Absent == <<>>

Some(v) == <<v>>

\* new Obstacle(scene, x, y, type): setupVisuals makes a 'moving_platform'
\* non-deadly; every other type keeps isDeadly = true.
Obstacle(x, y, type) ==
    [x |-> x, y |-> y, velocityX |-> 0, velocityY |-> 0, obstacleType |-> type,
     isActive |-> TRUE, isDeadly |-> type # "moving_platform"]

\* new Item(scene, x, y, type), with the default configuration.
Item(x, y, type) ==
    [x |-> x, y |-> y, velocityX |-> 0, velocityY |-> 0, itemType |-> type,
     isActive |-> TRUE, isCollected |-> FALSE, value |-> DefaultItemValue]

\* Item.reset(x, y, type)
ItemReset(it, x, y, type) ==
    [it EXCEPT !.x = x, !.y = y, !.isCollected = FALSE, !.isActive = TRUE,
               !.itemType = IF type # "" /\ type # @ THEN type ELSE @]

\* new EntityFactory(scene) with initializePools().  `obstacles` and `items`
\* hold every instance ever constructed, indexed by identity; the pools and
\* active lists hold identities.  `tweens` are the collection animations
\* whose onComplete has not run yet, oldest first (all last 300 ms).
NewFactory(catalog) ==
    [patterns        |-> catalog,
     currentPattern  |-> Absent,
     obstacles       |-> [i \in 1..PoolSize |->
                            [Obstacle(Parked, Parked, "spike") EXCEPT !.isActive = FALSE]],
     items           |-> [i \in 1..PoolSize |->
                            [Item(Parked, Parked, "coin") EXCEPT !.isActive = FALSE]],
     obstaclePool    |-> [i \in 1..PoolSize |-> i],
     itemPool        |-> [i \in 1..PoolSize |-> i],
     activeObstacles |-> <<>>,
     activeItems     |-> <<>>,
     player          |-> Absent,
     tweens          |-> <<>>]

createPlayer(f, x, y) == [f EXCEPT !.player = Some([x |-> x, y |-> y])]

\* pool.find(e => !e.isActive): the first inactive instance in pool order,
\* 0 when there is none.
FirstInactive(pool, store) ==
    LET idx == {i \in DOMAIN pool : ~store[pool[i]].isActive}
    IN  IF idx = {} THEN 0 ELSE pool[Min(idx)]

\* The pool after an instance was constructed on exhaustion: the code does
\* not add the new instance to the pool.
PoolAfterCreate(pool, id) == pool

\* `data` of a spawn call: velocity and value are optional; no call made
\* here carries a `movement`.
NoData == [velocity |-> Absent, value |-> 0]

spawnObstacle(f, type, x, y, data) ==
    LET found  == FirstInactive(f.obstaclePool, f.obstacles)
        id     == IF found = 0 THEN Len(f.obstacles) + 1 ELSE found
        placed == IF found = 0
                  THEN Append(f.obstacles, Obstacle(x, y, type))
                  ELSE [f.obstacles EXCEPT ![found].x = x, ![found].y = y,
                                           ![found].obstacleType = type,
                                           ![found].isActive = TRUE]
        moved  == IF data.velocity # Absent
                  THEN [placed EXCEPT ![id].velocityX = data.velocity[1].x,
                                      ![id].velocityY = data.velocity[1].y]
                  ELSE placed
    IN  [f |-> [f EXCEPT !.obstacles = moved,
                         !.obstaclePool = IF found = 0 THEN PoolAfterCreate(@, id) ELSE @,
                         !.activeObstacles = Append(@, id)],
         id |-> id, created |-> found = 0]

spawnItem(f, type, x, y, data) ==
    LET found  == FirstInactive(f.itemPool, f.items)
        id     == IF found = 0 THEN Len(f.items) + 1 ELSE found
        placed == IF found = 0
                  THEN Append(f.items, Item(x, y, type))
                  ELSE [f.items EXCEPT ![found] = ItemReset(@, x, y, type)]
        moved  == IF data.velocity # Absent
                  THEN [placed EXCEPT ![id].velocityX = data.velocity[1].x,
                                      ![id].velocityY = data.velocity[1].y]
                  ELSE placed
        valued == IF data.value # 0 THEN [moved EXCEPT ![id].value = data.value]
                                    ELSE moved
    IN  [f |-> [f EXCEPT !.items = valued,
                         !.itemPool = IF found = 0 THEN PoolAfterCreate(@, id) ELSE @,
                         !.activeItems = Append(@, id)],
         id |-> id, created |-> found = 0]

\* Obstacle.update: position += velocity * delta / 1000 while active.
ObstacleUpdate(o, delta) ==
    IF ~o.isActive THEN o
    ELSE [o EXCEPT !.x = @ + (o.velocityX * delta) \div 1000,
                   !.y = @ + (o.velocityY * delta) \div 1000]

\* Item.update: the same, and a collected item no longer moves.
ItemUpdate(it, delta) ==
    IF ~it.isActive \/ it.isCollected THEN it
    ELSE [it EXCEPT !.x = @ + (it.velocityX * delta) \div 1000,
                    !.y = @ + (it.velocityY * delta) \div 1000]

\* activeObstacles.forEach(o => o.update(time, delta)), entry by entry.
RECURSIVE UpdateObstacles(_, _, _)
UpdateObstacles(store, list, delta) ==
    IF list = <<>> THEN store
    ELSE UpdateObstacles([store EXCEPT ![Head(list)] = ObstacleUpdate(@, delta)],
                         Tail(list), delta)

RECURSIVE UpdateItems(_, _, _)
UpdateItems(store, list, delta) ==
    IF list = <<>> THEN store
    ELSE UpdateItems([store EXCEPT ![Head(list)] = ItemUpdate(@, delta)],
                     Tail(list), delta)

\* The filter predicates of cleanupOffScreenEntities: TRUE = released.
ObstacleSwept(o) == o.x < ScreenLeft

ItemSwept_OffScreenOnly(it) == it.x < ScreenLeft

ItemSwept(it) == it.x < ScreenLeft \/ it.isCollected

\* cleanupOffScreenEntities: entities behind the left edge, and collected
\* items, are deactivated and leave the active lists.
cleanupOffScreenEntities_KeepsActive(f) ==
    [f EXCEPT
       !.activeObstacles = SelectSeq(@, LAMBDA id : ~ObstacleSwept(f.obstacles[id])),
       !.activeItems = SelectSeq(@, LAMBDA id : ~ItemSwept(f.items[id]))]

cleanupOffScreenEntities(f) ==
    [f EXCEPT
       !.obstacles = [id \in DOMAIN @ |->
                        IF id \in Range(f.activeObstacles) /\ ObstacleSwept(@[id])
                        THEN [@[id] EXCEPT !.isActive = FALSE] ELSE @[id]],
       !.activeObstacles = SelectSeq(@, LAMBDA id : ~ObstacleSwept(f.obstacles[id])),
       !.items = [id \in DOMAIN @ |->
                    IF id \in Range(f.activeItems) /\ ItemSwept(@[id])
                    THEN [@[id] EXCEPT !.isActive = FALSE] ELSE @[id]],
       !.activeItems = SelectSeq(@, LAMBDA id : ~ItemSwept(f.items[id]))]

\* EntityFactory.update(time, delta)
update(f, delta) ==
    cleanupOffScreenEntities(
        [f EXCEPT !.obstacles = UpdateObstacles(@, f.activeObstacles, delta),
                  !.items = UpdateItems(@, f.activeItems, delta)])

\* getCollisionBounds of an entity centred at (x, y).
Bounds(x, y, w, h) ==
    [x |-> x - w \div 2, y |-> y - h \div 2, width |-> w, height |-> h]

\* The AABB test of Obstacle.checkCollision and Item.checkCollision.
Overlaps_Touching(b, p) ==
    /\ b.x <= p.x + p.width
    /\ b.x + b.width >= p.x
    /\ b.y <= p.y + p.height
    /\ b.y + b.height >= p.y

Overlaps(b, p) ==
    /\ b.x < p.x + p.width
    /\ b.x + b.width > p.x
    /\ b.y < p.y + p.height
    /\ b.y + b.height > p.y

PlayerBounds(pl) == Bounds(pl.x, pl.y, HitboxW, HitboxH)

ObstacleCheckCollision(o, pb) ==
    o.isActive /\ Overlaps(Bounds(o.x, o.y, ObstacleSize, ObstacleSize), pb)

ItemCheckCollision(it, pb) ==
    /\ it.isActive
    /\ ~it.isCollected
    /\ Overlaps(Bounds(it.x, it.y, ItemSize, ItemSize), pb)

\* Obstacle.onPlayerCollision: TRUE = the collision was deadly.
ObstacleOnPlayerCollision(o) == o.isActive /\ o.isDeadly

checkCollisions(f) ==
    IF f.player = Absent
    THEN [obstacles |-> <<>>, items |-> <<>>]
    ELSE LET pb == PlayerBounds(f.player[1])
         IN  [obstacles |-> SelectSeq(f.activeObstacles,
                              LAMBDA id : ObstacleCheckCollision(f.obstacles[id], pb)),
              items     |-> SelectSeq(f.activeItems,
                              LAMBDA id : ItemCheckCollision(f.items[id], pb))]

\* Item.getItemEffect
ItemEffect(it) ==
    CASE it.itemType \in {"coin", "gem", "star"} -> [type |-> "score", value |-> it.value]
      [] it.itemType = "powerup_jump"  -> [type |-> "ability", ability |-> "doubleJump", duration |-> 10000]
      [] it.itemType = "powerup_dash"  -> [type |-> "ability", ability |-> "dash", duration |-> 8000]
      [] it.itemType = "powerup_slide" -> [type |-> "ability", ability |-> "slide", duration |-> 12000]
      [] it.itemType = "powerup_giant" -> [type |-> "ability", ability |-> "giant", duration |-> 5000]
      [] it.itemType = "key"           -> [type |-> "key", value |-> 1]
      [] OTHER                         -> [type |-> "score", value |-> it.value]

\* The item loop of processCollisions: Item.onPlayerCollision on each entry
\* in turn.  A collected item is flagged, its collection animation is
\* started and its effect reported.
RECURSIVE CollectItems_Unguarded(_, _)
CollectItems_Unguarded(acc, list) ==
    IF list = <<>> THEN acc
    ELSE LET id == Head(list)
             it == acc.items[id]
         IN  CollectItems_Unguarded(
               [items   |-> [acc.items EXCEPT ![id].isCollected = TRUE],
                tweens  |-> Append(acc.tweens, id),
                effects |-> Append(acc.effects, ItemEffect(it)),
                ids     |-> Append(acc.ids, id)],
               Tail(list))

\* The item loop retiring each item as it is collected.
RECURSIVE CollectItems_Retiring(_, _)
CollectItems_Retiring(acc, list) ==
    IF list = <<>> THEN acc
    ELSE LET id == Head(list)
             it == acc.items[id]
         IN  IF ~it.isActive \/ it.isCollected
             THEN CollectItems_Retiring(acc, Tail(list))
             ELSE CollectItems_Retiring(
                    [items   |-> [acc.items EXCEPT ![id].isCollected = TRUE,
                                                   ![id].isActive = FALSE],
                     tweens  |-> Append(acc.tweens, id),
                     effects |-> Append(acc.effects, ItemEffect(it)),
                     ids     |-> Append(acc.ids, id)],
                    Tail(list))

RECURSIVE CollectItems(_, _)
CollectItems(acc, list) ==
    IF list = <<>> THEN acc
    ELSE LET id == Head(list)
             it == acc.items[id]
         IN  IF ~it.isActive \/ it.isCollected
             THEN CollectItems(acc, Tail(list))
             ELSE CollectItems(
                    [items   |-> [acc.items EXCEPT ![id].isCollected = TRUE],
                     tweens  |-> Append(acc.tweens, id),
                     effects |-> Append(acc.effects, ItemEffect(it)),
                     ids     |-> Append(acc.ids, id)],
                    Tail(list))

\* processCollisions returning at the first deadly obstacle.
processCollisions_StopsOnHit(f) ==
    LET collisions == checkCollisions(f)
        playerHit  == \E i \in DOMAIN collisions.obstacles :
                         ObstacleOnPlayerCollision(f.obstacles[collisions.obstacles[i]])
        got == CollectItems([items |-> f.items, tweens |-> f.tweens,
                             effects |-> <<>>, ids |-> <<>>],
                            IF playerHit THEN <<>> ELSE collisions.items)
    IN  [f |-> [f EXCEPT !.items = got.items, !.tweens = got.tweens],
         playerHit |-> playerHit, itemsCollected |-> got.effects, ids |-> got.ids]

processCollisions(f) ==
    LET collisions == checkCollisions(f)
        playerHit  == \E i \in DOMAIN collisions.obstacles :
                         ObstacleOnPlayerCollision(f.obstacles[collisions.obstacles[i]])
        got == CollectItems([items |-> f.items, tweens |-> f.tweens,
                             effects |-> <<>>, ids |-> <<>>], collisions.items)
    IN  [f |-> [f EXCEPT !.items = got.items, !.tweens = got.tweens],
         playerHit |-> playerHit, itemsCollected |-> got.effects, ids |-> got.ids]

\* onComplete of the oldest collection animation: this.setActive(false).
tweenComplete(f) ==
    [f EXCEPT !.items[Head(f.tweens)].isActive = FALSE, !.tweens = Tail(@)]

clearAllEntities(f) ==
    [f EXCEPT
       !.obstacles = [id \in DOMAIN @ |->
                        IF id \in Range(f.activeObstacles)
                        THEN [@[id] EXCEPT !.isActive = FALSE] ELSE @[id]],
       !.activeObstacles = <<>>,
       !.items = [id \in DOMAIN @ |->
                    IF id \in Range(f.activeItems)
                    THEN [@[id] EXCEPT !.isActive = FALSE] ELSE @[id]],
       !.activeItems = <<>>]

destroy(f) ==
    [clearAllEntities(f) EXCEPT !.obstaclePool = <<>>, !.itemPool = <<>>,
                                !.player = Absent]

(***************************************************************************)
(* Pattern catalog, selection and instantiation                            *)
(***************************************************************************)

\* Bounds of the model: difficulties 0..MaxDifficulty are asked for, and
\* Math.random() takes the values k / DrawSteps, k in 0..DrawSteps-1.
MaxDifficulty == 4
DrawSteps == 10

Abs(n) == IF n < 0 THEN -n ELSE n

Max(a, b) == IF a >= b THEN a ELSE b

StartsWith(name, prefix) ==
    Len(name) >= Len(prefix) /\ SubSeq(name, 1, Len(prefix)) = prefix

\* An element of a pattern's data: x and y are in pattern units.
Element(type, x, y) ==
    [type |-> type, x |-> x, y |-> y, velocity |-> Absent, value |-> 0]

getDifficultyFromName(name) ==
    CASE StartsWith(name, "easy_") -> 1
      [] StartsWith(name, "mid_")  -> 2
      [] StartsWith(name, "hard_") -> 3
      [] OTHER                     -> 1

\* One entry of this.patterns as the constructor builds it from a
\* [name, data] pair of the global catalog: it has no `type`, `obstacles`
\* or `items` (the latter two are empty here).  dataType is data.type, the
\* tag the catalog's value may carry; the entry itself gets none.
CatalogEntry(name, data) ==
    [name |-> name, data |-> Some(data), dataType |-> "undefined",
     difficulty |-> getDifficultyFromName(name),
     obstacles |-> <<>>, items |-> <<>>]

\* createDefaultPattern: two obstacles and two items, and no `data`.
createDefaultPattern ==
    [name |-> "default", data |-> Absent, dataType |-> "undefined", difficulty |-> 1,
     obstacles |-> <<Element("spike", 200, 500), Element("block", 350, 450)>>,
     items     |-> <<Element("coin", 250, 400), Element("coin", 300, 350)>>]

Eligible_Any(pattern, difficulty) == TRUE

\* The filter of getPatternsByDifficulty.
Eligible(pattern, difficulty) ==
    (IF pattern.difficulty # 0 THEN pattern.difficulty ELSE 1) <= difficulty

getPatternsByDifficulty(f, difficulty) ==
    IF Len(f.patterns) = 0 THEN <<>>
    ELSE SelectSeq(f.patterns, LAMBDA pattern : Eligible(pattern, difficulty))

\* pattern.type: no pattern the factory holds has one, whatever its data
\* carries.
PatternType(pattern) == "undefined"

\* calculatePatternWeight, in hundredths: max(0.1, 1 - 0.3 * |tier - d|),
\* times 1.5 for a 'challenge' pattern past distance 1000.
calculatePatternWeight(pattern, difficulty, distance) ==
    LET difficultyMatch ==
            Abs((IF pattern.difficulty # 0 THEN pattern.difficulty ELSE 1) - difficulty)
        weight == Max(10, 100 - difficultyMatch * 30)
    IN  IF distance > 1000 /\ PatternType(pattern) = "challenge"
        THEN (weight * 3) \div 2
        ELSE weight

RECURSIVE SumWeights(_)
SumWeights(weights) ==
    IF weights = <<>> THEN 0 ELSE Head(weights) + SumWeights(Tail(weights))

\* The selection loop stopping only on a remainder below zero.
RECURSIVE PickWeighted_Strict(_, _, _)
PickWeighted_Strict(weights, i, random) ==
    IF i > Len(weights) THEN 0
    ELSE LET rest == random - DrawSteps * weights[i]
         IN  IF rest < 0 THEN i ELSE PickWeighted_Strict(weights, i + 1, rest)

\* The selection loop: random -= weight; if (random <= 0) return.  `random`
\* is in units of 1 / (100 * DrawSteps); the result is the index picked, 0
\* when the loop ends without picking.
RECURSIVE PickWeighted(_, _, _)
PickWeighted(weights, i, random) ==
    IF i > Len(weights) THEN 0
    ELSE LET rest == random - DrawSteps * weights[i]
         IN  IF rest <= 0 THEN i ELSE PickWeighted(weights, i + 1, rest)

\* selectNextPattern(difficulty, distance) when Math.random() returns
\* draw / DrawSteps.
selectNextPattern(f, difficulty, distance, draw) ==
    LET availablePatterns == getPatternsByDifficulty(f, difficulty)
        weights == [i \in DOMAIN availablePatterns |->
                      calculatePatternWeight(availablePatterns[i], difficulty, distance)]
        picked  == PickWeighted(weights, 1, draw * SumWeights(weights))
        pattern == availablePatterns[IF picked = 0 THEN 1 ELSE picked]
    IN  IF Len(availablePatterns) = 0
        THEN [f |-> f, pattern |-> createDefaultPattern]
        ELSE [f |-> [f EXCEPT !.currentPattern = Some(pattern)], pattern |-> pattern]

isObstacleType(type) ==
    type \in {"spike_low", "spike_high", "spike", "saw", "block",
              "moving_obstacle", "falling_platform"}

\* isItemType taking every kind for an item.
isItemType_AcceptsAny(type) == TRUE

isItemType(type) ==
    type \in {"coin_arc", "coin_line", "coin_wave", "coin",
              "gem", "star", "spring", "magnet_item", "dash_item"}

mapToObstacleType(type) ==
    CASE type \in {"spike_low", "spike_high", "spike", "moving_obstacle"} -> "spike"
      [] type = "saw" -> "saw"
      [] type \in {"block", "falling_platform"} -> "block"
      [] OTHER -> "spike"

mapToItemType(type) ==
    CASE type \in {"coin_arc", "coin_line", "coin_wave", "coin", "spring"} -> "coin"
      [] type \in {"gem", "magnet_item"} -> "gem"
      [] type \in {"star", "dash_item"} -> "star"
      [] OTHER -> "coin"

\* patternData.forEach(...) of spawnFromPattern.
RECURSIVE SpawnElements(_, _, _, _)
SpawnElements(f, patternData, offsetX, offsetY) ==
    IF patternData = <<>> THEN f
    ELSE LET element  == Head(patternData)
             elementX == offsetX + element.x * 50
             elementY == offsetY + element.y * 50
             next == IF isObstacleType(element.type)
                     THEN spawnObstacle(f, mapToObstacleType(element.type),
                                        elementX, elementY + 500, element).f
                     ELSE IF isItemType(element.type)
                     THEN spawnItem(f, mapToItemType(element.type),
                                    elementX, elementY + 400, element).f
                     ELSE f
         IN  SpawnElements(next, Tail(patternData), offsetX, offsetY)

\* What spawnFromPattern takes for an array: `pattern.data || pattern` is
\* the data array when the pattern has one, and otherwise the pattern object
\* itself, which is no array.
PatternData(pattern) == pattern.data

spawnFromPattern(f, pattern, offsetX, offsetY) ==
    LET patternData == PatternData(pattern)
    IN  IF patternData = Absent THEN f
        ELSE SpawnElements(f, patternData[1], offsetX, offsetY)

(***************************************************************************)
(* The EntityFactory driven call by call                                   *)
(***************************************************************************)

\* What a factory call leaves in fLast.
NoCall(op) ==
    [op |-> op, id |-> 0, created |-> FALSE, exhausted |-> FALSE,
     reusedLive |-> FALSE, prePool |-> 0, playerHit |-> FALSE,
     itemsCollected |-> <<>>, ids |-> <<>>, pattern |-> Absent, difficulty |-> 0,
     preObstacles |-> 0, preItems |-> 0, data |-> NoData,
     distance |-> 0, draw |-> 0]

TrackOff ==
    [on |-> FALSE, released |-> {}, othersActive |-> FALSE, acquired |-> <<>>,
     poolLen |-> 0, instances |-> 0]

\* The pool, instances and active list of the class the scenario spawns.
ClassPool(f) == IF scenario = "items" THEN f.itemPool ELSE f.obstaclePool

ClassStore(f) == IF scenario = "items" THEN f.items ELSE f.obstacles

ClassActive(f) == IF scenario = "items" THEN f.activeItems ELSE f.activeObstacles

\* After a sweep: the pooled instances it removed from the active list.
TrackSweep(before, after) ==
    LET released == (Range(ClassActive(before)) \ Range(ClassActive(after)))
                      \cap Range(ClassPool(before))
    IN  [on |-> TRUE, released |-> released,
         othersActive |-> \A id \in Range(ClassPool(after)) \ released :
                             ClassStore(after)[id].isActive,
         acquired |-> <<>>,
         poolLen |-> Len(ClassPool(before)),
         instances |-> Len(ClassStore(before))]

\* After an acquire: counted while fewer acquires than releases were made.
TrackSpawn(id) ==
    IF poolTrack.on /\ Len(poolTrack.acquired) < Cardinality(poolTrack.released)
    THEN [poolTrack EXCEPT !.acquired = Append(@, id)]
    ELSE TrackOff

\* Inputs of the scenarios.  The player stands at (100, 450); an obstacle at
\* x = 130 or y = 487 touches the player's bounds exactly.
PoolPoints == {<<100, 450>>}
PoolData == {NoData, [velocity |-> Some([x |-> -300, y |-> 0]), value |-> 0]}
CollidePoints == {<<100, 450>>, <<130, 450>>, <<100, 487>>, <<300, 450>>}
CollideTypes == {"spike", "moving_platform"}
MixedPoints == {<<100, 450>>, <<300, 450>>}
MixedItems == {"coin", "gem"}
Deltas == {1000}
Difficulties == 0..MaxDifficulty
Distances == {0, 1500}
Draws == 0..(DrawSteps - 1)

\* The global pattern catalog the constructor reads: any selection of these
\* [name, data] pairs, in this order; `type` is the tag the data carries.
PatternSource ==
    << [name |-> "easy_001", type |-> "undefined",
        data |-> <<Element("spike", 0, 0), Element("coin", 1, -1)>>],
       [name |-> "mid_011", type |-> "undefined",
        data |-> <<Element("saw", 0, 0), Element("laser", 1, 0), Element("gem", 2, 0)>>],
       [name |-> "hard_021", type |-> "challenge",
        data |-> <<[Element("moving_obstacle", 1, 0)
                      EXCEPT !.velocity = Some([x |-> -1500, y |-> 0])]>>],
       [name |-> "boss_01", type |-> "challenge", data |-> <<>>] >>

Catalog(S) ==
    LET idx == SelectSeq([i \in DOMAIN PatternSource |-> i], LAMBDA i : i \in S)
    IN  [j \in DOMAIN idx |->
           [CatalogEntry(PatternSource[idx[j]].name, PatternSource[idx[j]].data)
              EXCEPT !.dataType = PatternSource[idx[j]].type]]

Catalogs == {Catalog(S) : S \in SUBSET DOMAIN PatternSource}

Live == fLast.op # "destroy"

DoSpawnObstacle(type, x, y, data) ==
    LET r == spawnObstacle(factory, type, x, y, data)
        found == FirstInactive(factory.obstaclePool, factory.obstacles)
    IN  /\ Live
        /\ Len(r.f.activeObstacles) <= MaxActive
        /\ Len(r.f.obstacles) <= MaxInstances
        /\ factory' = r.f
        /\ fLast' = [NoCall("spawnObstacle") EXCEPT
                       !.id = r.id, !.created = r.created, !.exhausted = (found = 0),
                       !.reusedLive = (found \in Range(factory.activeObstacles)),
                       !.prePool = Len(factory.obstaclePool), !.data = data]
        /\ poolTrack' = TrackSpawn(r.id)
        /\ UNCHANGED scenario

DoSpawnItem(type, x, y, data) ==
    LET r == spawnItem(factory, type, x, y, data)
        found == FirstInactive(factory.itemPool, factory.items)
    IN  /\ Live
        /\ Len(r.f.activeItems) <= MaxActive
        /\ Len(r.f.items) <= MaxInstances
        /\ factory' = r.f
        /\ fLast' = [NoCall("spawnItem") EXCEPT
                       !.id = r.id, !.created = r.created, !.exhausted = (found = 0),
                       !.reusedLive = (found \in Range(factory.activeItems)),
                       !.prePool = Len(factory.itemPool), !.data = data]
        /\ poolTrack' = TrackSpawn(r.id)
        /\ UNCHANGED scenario

DoUpdate(delta) ==
    /\ Live
    /\ factory' = update(factory, delta)
    /\ fLast' = NoCall("update")
    /\ poolTrack' = TrackSweep(factory, factory')
    /\ UNCHANGED scenario

DoProcessCollisions ==
    LET r == processCollisions(factory)
    IN  /\ Live
        /\ Len(r.f.tweens) <= MaxTweens
        /\ factory' = r.f
        /\ fLast' = [NoCall("processCollisions") EXCEPT
                       !.playerHit = r.playerHit, !.itemsCollected = r.itemsCollected,
                       !.ids = r.ids]
        /\ poolTrack' = TrackOff
        /\ UNCHANGED scenario

DoTweenComplete ==
    /\ Live
    /\ factory.tweens # <<>>
    /\ factory' = tweenComplete(factory)
    /\ fLast' = NoCall("tweenComplete")
    /\ poolTrack' = TrackOff
    /\ UNCHANGED scenario

DoClearAllEntities ==
    /\ Live
    /\ factory' = clearAllEntities(factory)
    /\ fLast' = NoCall("clearAllEntities")
    /\ poolTrack' = TrackOff
    /\ UNCHANGED scenario

DoDestroy ==
    /\ Live
    /\ factory' = destroy(factory)
    /\ fLast' = NoCall("destroy")
    /\ poolTrack' = TrackOff
    /\ UNCHANGED scenario

DoSelectNextPattern(difficulty, distance, draw) ==
    LET r == selectNextPattern(factory, difficulty, distance, draw)
    IN  /\ Live
        /\ factory' = r.f
        /\ fLast' = [NoCall("selectNextPattern") EXCEPT
                       !.pattern = Some(r.pattern), !.difficulty = difficulty,
                       !.distance = IF scenario = "select" THEN distance ELSE 0,
                       !.draw = IF scenario = "select" THEN draw ELSE 0]
        /\ poolTrack' = TrackOff
        /\ UNCHANGED scenario

\* PlayScene.spawnPatterns instantiates the pattern selectNextPattern just
\* returned, at offset (1200, 0).
DoSpawnFromPattern(offsetX, offsetY) ==
    LET pattern == fLast.pattern[1]
        f == spawnFromPattern(factory, pattern, offsetX, offsetY)
    IN  /\ fLast.op = "selectNextPattern"
        /\ Len(f.activeObstacles) <= MaxActive
        /\ Len(f.activeItems) <= MaxActive
        /\ Len(f.obstacles) <= MaxInstances
        /\ Len(f.items) <= MaxInstances
        /\ factory' = f
        /\ fLast' = [NoCall("spawnFromPattern") EXCEPT
                       !.pattern = Some(pattern),
                       !.preObstacles = Len(factory.activeObstacles),
                       !.preItems = Len(factory.activeItems)]
        /\ poolTrack' = TrackOff
        /\ UNCHANGED scenario

\* The factory as PlayScene.setupGame leaves it: constructed, player created.
FactoryReady(catalog) == createPlayer(NewFactory(catalog), PlayerStartX, PlayerStartY)

FactoryIdle ==
    /\ factory = FactoryReady(<<>>)
    /\ scenario = "idle"
    /\ fLast = NoCall("new")
    /\ poolTrack = TrackOff

\* A factory whose driver spawns entities of one class at the player's place
\* ("obstacles", "items") or obstacles of either kind around it ("collide").
PoolInit ==
    /\ factory = FactoryReady(<<>>)
    /\ scenario \in {"obstacles", "items", "collide"}
    /\ fLast = NoCall("new")
    /\ poolTrack = TrackOff

\* What was spawned before the collisions of the "mixed" scenario are
\* resolved: up to PoolSize spikes and up to MaxActive coins and gems, each
\* at the player's place or clear of it.
SeqsUpTo(S, n) == UNION {[1..k -> S] : k \in 0..n}

RECURSIVE SpawnSpikes(_, _)
SpawnSpikes(f, points) ==
    IF points = <<>> THEN f
    ELSE SpawnSpikes(spawnObstacle(f, "spike", Head(points)[1], Head(points)[2], NoData).f,
                     Tail(points))

RECURSIVE SpawnItems(_, _)
SpawnItems(f, placed) ==
    IF placed = <<>> THEN f
    ELSE SpawnItems(spawnItem(f, Head(placed)[1], Head(placed)[2][1], Head(placed)[2][2],
                              NoData).f,
                    Tail(placed))

MixedInit ==
    /\ \E points \in SeqsUpTo(MixedPoints, PoolSize),
          placed \in SeqsUpTo(MixedItems \X MixedPoints, MaxActive) :
         factory = SpawnItems(SpawnSpikes(FactoryReady(<<>>), points), placed)
    /\ scenario = "mixed"
    /\ fLast = NoCall("new")
    /\ poolTrack = TrackOff

\* A factory constructed over some catalog, whose driver selects and
\* instantiates patterns.
\* The factory over any catalog, for the selections whose distance and
\* draw are kept in fLast.
SelectInit ==
    /\ \E catalog \in Catalogs : factory = FactoryReady(catalog)
    /\ scenario = "select"
    /\ fLast = NoCall("new")
    /\ poolTrack = TrackOff

PatternInit ==
    /\ \E catalog \in Catalogs : factory = FactoryReady(catalog)
    /\ scenario = "patterns"
    /\ fLast = NoCall("new")
    /\ poolTrack = TrackOff

(***************************************************************************)
(* ProgressManager                                                         *)
(***************************************************************************)

\* Bounds of the model: items collected and deaths recorded over the life
\* of a store, the distance of a session, and the clock (seconds).
MaxItems == 101
MaxSessionItems == 11
MaxDeaths == 1
MaxDistance == 1000
MaxNow == 5

\* Program constants.
ComboTimeout == 3000
BestTimeDistance == 1000

milestones == <<100, 500, 1000, 2500, 5000, 10000>>

DefaultStats ==
    [totalJumps |-> 0, totalDashes |-> 0, totalSlides |-> 0, totalDeaths |-> 0,
     totalItemsCollected |-> 0, bestTime |-> 0, longestCombo |-> 0,
     fastestSpeed |-> 0]

\* The field initialisers of ProgressManager.  comboMultiplier is in tenths;
\* achievements is the Map as its entries <<id, value>> in insertion order;
\* `log` lists what the current call unlocked or awarded.
FreshProgress ==
    [score |-> 0, highScore |-> 0, coins |-> 0, gems |-> 0, stars |-> 0,
     distance |-> 0, time |-> 0, level |-> 1, difficulty |-> 1,
     combo |-> 0, maxCombo |-> 0, comboMultiplier |-> 10,
     lastCollectionTime |-> 0,
     achievements |-> <<>>, reachedMilestones |-> {},
     stats |-> DefaultStats, log |-> <<>>]

\* achievements.has(id)
Has(achievements, id) == \E i \in DOMAIN achievements : achievements[i][1] = id

\* What localStorage holds under 'geometricDash_progress': nothing, or a
\* text that is unparsable ("garbage"), the JSON null, or a JSON object whose
\* highScore and stats may be missing and whose achievements are missing, an
\* array of entries, or something that is no iterable of entries.
Document(highScore, stats, kind, entries) ==
    [kind |-> "object", highScore |-> highScore, stats |-> stats,
     achievements |-> [kind |-> kind, entries |-> entries]]

Garbage == [Document(Absent, Absent, "absent", <<>>) EXCEPT !.kind = "garbage"]

JsonNull == [Document(Absent, Absent, "absent", <<>>) EXCEPT !.kind = "null"]

\* JSON.stringify({highScore, stats, achievements: Array.from(entries())})
Stringify_MapAsObject(p) == Document(Some(p.highScore), Some(p.stats), "malformed", <<>>)

Stringify(p) == Document(Some(p.highScore), Some(p.stats), "entries", p.achievements)

\* new Map(entries): a later entry of a key replaces the value of the first.
MapOf(entries) ==
    LET firsts == SelectSeq([i \in DOMAIN entries |-> i],
                            LAMBDA i : \A j \in 1..(i - 1) : entries[j][1] # entries[i][1])
        lastOf(id) == CHOOSE i \in DOMAIN entries :
                        /\ entries[i][1] = id
                        /\ \A j \in DOMAIN entries : entries[j][1] = id => j <= i
    IN  [k \in DOMAIN firsts |->
           <<entries[firsts[k]][1], entries[lastOf(entries[firsts[k]][1])][2]>>]

\* loadProgressData: the assignments run in order until one throws; the
\* catch block keeps whatever was assigned before.
loadProgressData(p, stored, readOk) ==
    IF ~readOk \/ stored = Absent \/ stored[1].kind # "object" THEN p
    ELSE LET data == stored[1]
             loaded == [p EXCEPT
                          !.highScore = IF data.highScore # Absent
                                        THEN data.highScore[1] ELSE 0,
                          !.stats = IF data.stats # Absent THEN data.stats[1] ELSE @]
         IN  IF data.achievements.kind = "malformed" THEN loaded
             ELSE [loaded EXCEPT !.achievements = MapOf(data.achievements.entries)]

\* new ProgressManager(scene, gameState)
NewProgressManager(stored, readOk) == loadProgressData(FreshProgress, stored, readOk)

\* saveProgressData: the store after the call; a throwing setItem is caught.
saveProgressData(p, stored, writeOk) ==
    IF writeOk THEN Some(Stringify(p)) ELSE stored

\* addScore(points): the manager after it; the points added are
\* floor(points * comboMultiplier).
BonusPoints(p, points) == (points * p.comboMultiplier) \div 10

addScore(p, points) == [p EXCEPT !.score = @ + BonusPoints(p, points)]

addDistance(p, distance) == [p EXCEPT !.distance = @ + distance]

getItemScore(itemType, value) ==
    (CASE itemType = "coin" -> 10
       [] itemType = "gem"  -> 50
       [] itemType = "star" -> 100
       [] itemType = "key"  -> 25
       [] OTHER             -> 10) * value

\* Math.min(1 + (combo - 1) * 0.1, 5), in tenths.
Multiplier_Uncapped(combo) == 10 + (combo - 1)

Multiplier(combo) == IF 10 + (combo - 1) < 50 THEN 10 + (combo - 1) ELSE 50

\* collectItem(itemType, value) at clock `now` (milliseconds).
collectItem(p, itemType, value, now) ==
    LET counted == [p EXCEPT
                      !.lastCollectionTime = now,
                      !.combo = @ + 1,
                      !.stats.totalItemsCollected = @ + 1,
                      !.comboMultiplier = Multiplier(p.combo + 1),
                      !.coins = IF itemType = "coin" THEN @ + 1 ELSE @,
                      !.gems  = IF itemType = "gem"  THEN @ + 1 ELSE @,
                      !.stars = IF itemType = "star" THEN @ + 1 ELSE @]
        scored  == addScore(counted, getItemScore(itemType, value))
    IN  [scored EXCEPT
           !.maxCombo = IF scored.combo > @ THEN scored.combo ELSE @,
           !.stats.longestCombo = IF scored.combo > @ THEN scored.combo ELSE @]

\* What collectItem returns.
collectItemResult(p, itemType, value) ==
    [score |-> (getItemScore(itemType, value) * Multiplier(p.combo + 1)) \div 10,
     combo |-> p.combo + 1]

resetCombo_KeepsMultiplier(p) == [p EXCEPT !.combo = 0]

resetCombo(p) == [p EXCEPT !.combo = 0, !.comboMultiplier = 10]

recordAction(p, action) ==
    CASE action = "jump"  -> [p EXCEPT !.stats.totalJumps = @ + 1]
      [] action = "dash"  -> [p EXCEPT !.stats.totalDashes = @ + 1]
      [] action = "slide" -> [p EXCEPT !.stats.totalSlides = @ + 1]
      [] action = "death" -> resetCombo([p EXCEPT !.stats.totalDeaths = @ + 1])
      [] OTHER -> p

\* recordJump / recordDash / recordSlide, before the save they end with.
recordStat(p, action) ==
    CASE action = "jump"  -> [p EXCEPT !.stats.totalJumps = @ + 1]
      [] action = "dash"  -> [p EXCEPT !.stats.totalDashes = @ + 1]
      [] OTHER            -> [p EXCEPT !.stats.totalSlides = @ + 1]

updateSpeed(p, speed) ==
    [p EXCEPT !.stats.fastestSpeed = IF speed > @ THEN speed ELSE @]

calculateBonusScore(p) ==
    (p.distance * p.difficulty) \div 2
    + (IF p.distance > 0
       THEN (p.distance * 10) \div (IF p.time > 1 THEN p.time ELSE 1)
       ELSE 0)
    + (p.level - 1) * 100

unlockAchievement_Unchecked(p, id) ==
    addScore([p EXCEPT !.achievements = Append(@, <<id, TRUE>>),
                       !.log = Append(@, id)], 500)

\* unlockAchievement(id, description): the notification, the 500 bonus.
unlockAchievement(p, id) ==
    IF Has(p.achievements, id) THEN p
    ELSE addScore([p EXCEPT !.achievements = Append(@, <<id, TRUE>>),
                            !.log = Append(@, id)], 500)

\* The name of the achievement and of the bonus of a distance milestone.
DistanceId(milestone) ==
    CASE milestone = 100   -> "distance_100"
      [] milestone = 500   -> "distance_500"
      [] milestone = 1000  -> "distance_1000"
      [] milestone = 2500  -> "distance_2500"
      [] milestone = 5000  -> "distance_5000"
      [] OTHER             -> "distance_10000"

MilestoneId(milestone) ==
    CASE milestone = 100   -> "milestone_100"
      [] milestone = 500   -> "milestone_500"
      [] milestone = 1000  -> "milestone_1000"
      [] milestone = 2500  -> "milestone_2500"
      [] milestone = 5000  -> "milestone_5000"
      [] OTHER             -> "milestone_10000"

RECURSIVE checkMilestones(_, _)
checkMilestones(p, rest) ==
    IF rest = <<>> THEN p
    ELSE LET milestone == Head(rest)
         IN  IF p.distance >= milestone /\ milestone \notin p.reachedMilestones
             THEN checkMilestones(
                    addScore(
                      [unlockAchievement(
                         [p EXCEPT !.reachedMilestones = @ \cup {milestone}],
                         DistanceId(milestone))
                       EXCEPT !.log = Append(@, MilestoneId(milestone))],
                      milestone * 2),
                    Tail(rest))
             ELSE checkMilestones(p, Tail(rest))

\* One `if (cond && !has(id)) unlockAchievement(id)` of checkAchievements.
UnlockIf(p, cond, id) ==
    IF cond /\ ~Has(p.achievements, id) THEN unlockAchievement(p, id) ELSE p

checkAchievements(p) ==
    LET a == UnlockIf(p, p.combo >= 10, "combo_10")
        b == UnlockIf(a, a.combo >= 25, "combo_25")
        c == UnlockIf(b, b.coins >= 100, "coins_100")
        d == UnlockIf(c, c.gems >= 50, "gems_50")
        e == UnlockIf(d, d.stars >= 10, "stars_10")
        f == IF e.stats.totalDeaths = 0 /\ e.distance >= 500
             THEN unlockAchievement(e, "no_death_500") ELSE e
    IN  UnlockIf(f, f.stats.fastestSpeed >= 800, "speed_800")

\* update expiring the combo as soon as the gap reaches the timeout.
progressUpdate_ExpiresAtTimeout(p, time, delta) ==
    LET timed  == [p EXCEPT !.time = @ + delta \div 1000]
        broken == IF timed.combo > 0 /\ time - timed.lastCollectionTime >= ComboTimeout
                  THEN resetCombo(timed) ELSE timed
        scored == [broken EXCEPT !.score = (broken.distance * 10) + calculateBonusScore(broken)]
        high   == [scored EXCEPT !.highScore = IF scored.score > @ THEN scored.score ELSE @]
        placed == [high EXCEPT !.difficulty = high.distance \div 100 + 1,
                               !.level = high.distance \div 200 + 1]
    IN  checkAchievements(checkMilestones(placed, milestones))

\* ProgressManager.update(time, delta), time and delta in milliseconds.
progressUpdate(p, time, delta) ==
    LET timed  == [p EXCEPT !.time = @ + delta \div 1000]
        broken == IF timed.combo > 0 /\ time - timed.lastCollectionTime > ComboTimeout
                  THEN resetCombo(timed) ELSE timed
        scored == [broken EXCEPT !.score = (broken.distance * 10) + calculateBonusScore(broken)]
        high   == [scored EXCEPT !.highScore = IF scored.score > @ THEN scored.score ELSE @]
        placed == [high EXCEPT !.difficulty = high.distance \div 100 + 1,
                               !.level = high.distance \div 200 + 1]
    IN  checkAchievements(checkMilestones(placed, milestones))

endGame_AnyDistance(p) ==
    IF p.stats.bestTime = 0 \/ p.time < p.stats.bestTime
    THEN [p EXCEPT !.stats.bestTime = p.time] ELSE p

\* endGame(), before the save it ends with.
endGame(p) ==
    IF p.distance >= BestTimeDistance /\ (p.stats.bestTime = 0 \/ p.time < p.stats.bestTime)
    THEN [p EXCEPT !.stats.bestTime = p.time] ELSE p

\* resetSession clearing the lifetime records with the session.
resetSession_ClearsRecords(p) ==
    [p EXCEPT !.score = 0, !.distance = 0, !.time = 0, !.level = 1,
              !.difficulty = 1, !.combo = 0, !.comboMultiplier = 10,
              !.coins = 0, !.gems = 0, !.stars = 0, !.reachedMilestones = {},
              !.highScore = 0, !.achievements = <<>>]

\* resetSession()
resetSession(p) ==
    [p EXCEPT !.score = 0, !.distance = 0, !.time = 0, !.level = 1,
              !.difficulty = 1, !.combo = 0, !.comboMultiplier = 10,
              !.coins = 0, !.gems = 0, !.stars = 0, !.reachedMilestones = {}]

(***************************************************************************)
(* The ProgressManager driven call by call                                 *)
(***************************************************************************)

AchievementIds ==
    {"combo_10", "combo_25", "coins_100", "gems_50", "stars_10", "no_death_500",
     "speed_800"} \cup {DistanceId(milestones[i]) : i \in DOMAIN milestones}

MilestoneIds == {MilestoneId(milestones[i]) : i \in DOMAIN milestones}

NoneGranted == [id \in AchievementIds \cup MilestoneIds |-> 0]

\* The unlocks and milestone bonuses of the session so far, with those the
\* call that produced `p` logged.
Granted(p) ==
    [id \in AchievementIds \cup MilestoneIds |->
       granted[id] + Cardinality({i \in DOMAIN p.log : p.log[i] = id})]

\* What a ProgressManager call leaves in pLast.
PCall(op, arg) ==
    [op |-> op, arg |-> arg, ret |-> [score |-> 0, combo |-> 0],
     saved |-> FALSE, readOk |-> TRUE]

\* Inputs of the scenarios.
ProgressDeltas == {1000, 4000}
DistanceSteps == {500}
Speeds == {800}

\* What the localStorage may hold when a manager is constructed.
StoredDocuments ==
    { Absent, Some(Garbage), Some(JsonNull),
      Some(Document(Absent, Absent, "absent", <<>>)),
      Some(Document(Some(700), Some([DefaultStats EXCEPT !.totalJumps = 3]),
                    "entries", <<<<"combo_10", TRUE>>>>)),
      Some(Document(Some(700), Some([DefaultStats EXCEPT !.totalJumps = 3]),
                    "malformed", <<>>)) }

Cleared == [pm EXCEPT !.log = <<>>]

DoCollectItem(itemType, value) ==
    /\ pm.stats.totalItemsCollected
         < (IF scenario = "chain" THEN MaxItems ELSE MaxSessionItems)
    /\ pm' = collectItem(Cleared, itemType, value, clock)
    /\ pLast' = [PCall("collectItem", itemType) EXCEPT
                   !.ret = collectItemResult(pm, itemType, value)]
    /\ granted' = Granted(pm')
    /\ UNCHANGED <<localStorage, clock>>

DoRecordAction(action) ==
    /\ action = "death" => pm.stats.totalDeaths < MaxDeaths
    /\ pm' = recordAction(Cleared, action)
    /\ pLast' = PCall("recordAction", action)
    /\ granted' = Granted(pm')
    /\ UNCHANGED <<localStorage, clock>>

DoAddDistance(distance) ==
    /\ pm.distance + distance <= MaxDistance
    /\ pm' = addDistance(Cleared, distance)
    /\ pLast' = PCall("addDistance", "")
    /\ granted' = Granted(pm')
    /\ UNCHANGED <<localStorage, clock>>

DoUpdateSpeed(speed) ==
    /\ pm' = updateSpeed(Cleared, speed)
    /\ pLast' = PCall("updateSpeed", "")
    /\ granted' = Granted(pm')
    /\ UNCHANGED <<localStorage, clock>>

\* One frame: the clock advances by delta and update(time, delta) runs.
DoProgressUpdate(delta) ==
    /\ clock + delta <= MaxNow * 1000
    /\ clock' = clock + delta
    /\ pm' = progressUpdate(Cleared, clock + delta, delta)
    /\ pLast' = PCall("update", "")
    /\ granted' = Granted(pm')
    /\ UNCHANGED localStorage

DoEndGame(writeOk) ==
    /\ pm' = endGame(Cleared)
    /\ localStorage' = saveProgressData(pm', localStorage, writeOk)
    /\ pLast' = [PCall("endGame", "") EXCEPT !.saved = writeOk]
    /\ granted' = Granted(pm')
    /\ UNCHANGED clock

DoResetSession ==
    /\ pm' = resetSession(Cleared)
    /\ pLast' = PCall("resetSession", "")
    /\ granted' = NoneGranted
    /\ UNCHANGED <<localStorage, clock>>

\* The scene is created again: a new manager loads what the localStorage holds.
DoConstruct(readOk) ==
    /\ pm' = NewProgressManager(localStorage, readOk)
    /\ pLast' = [PCall("new", "") EXCEPT !.readOk = readOk]
    /\ granted' = NoneGranted
    /\ UNCHANGED <<localStorage, clock>>

ProgressIdle ==
    /\ pm = FreshProgress
    /\ localStorage = Absent
    /\ clock = 0
    /\ pLast = PCall("idle", "")
    /\ granted = NoneGranted

\* A manager constructed over what the localStorage holds.  Its driver collects
\* coins in a row ("chain"), collects stars between deaths, timeouts and
\* session resets ("combo"), travels ("distance"), or ends games and
\* constructs the manager again over what was stored ("storage").
ProgressInit ==
    /\ scenario \in {"chain", "combo", "distance", "storage"}
    /\ factory = FactoryReady(<<>>)
    /\ fLast = NoCall("new")
    /\ poolTrack = TrackOff
    /\ \E stored \in (IF scenario = "storage" THEN StoredDocuments ELSE {Absent}),
          readOk \in (IF scenario = "storage" THEN BOOLEAN ELSE {TRUE}) :
         /\ localStorage = stored
         /\ pm = NewProgressManager(stored, readOk)
         /\ pLast = [PCall("new", "") EXCEPT !.readOk = readOk]
    /\ clock = 0
    /\ granted = NoneGranted

(***************************************************************************)
(* PlayScene                                                               *)
(***************************************************************************)

\* Bounds of the model: the frames played and the times the scene is
\* entered or created again.
MaxTicks == 5
MaxRestarts == 1
MaxInputs == 2

\* Program constants.
StartSpeed == 320
StartLives == 3
SpeedGainPerSec == 6
MaxSpeed == 640
SpawnDistance == 200
SpawnX == 1200
SpawnY == 0
Gravity == 2200
GroundY == 500
JumpVelocity == 0 - 720
DashForce == 800
InvulnerableMs == 500
RespawnInvulnerableMs == 2000
AirControlPct == 15

\* gameState.distance is kept in units of 1/100000 m, so that
\* speed * deltaSeconds / 100 is the integer speed * delta (delta in ms).
MetreUnits == 100000

\* resetGameState: the gameState literal (time in ms).
FreshGameState ==
    [score |-> 0, distance |-> 0, coins |-> 0, combo |-> 0, lives |-> StartLives,
     speed |-> StartSpeed, time |-> 0, paused |-> FALSE, difficulty |-> 1]

\* What updateGameplay did in the frame just played: the calls it made in
\* order, and what spawnPatterns saw and did.
NoFrame ==
    [trace |-> <<>>, requested |-> 0, spawned |-> 0,
     lastBefore |-> 0, obstaclesBefore |-> <<>>, itemsBefore |-> <<>>]

\* The abilities of a new Player (giant only scales the sprite), and what
\* Player.reset leaves of them.
AllAbilities == [doubleJump |-> TRUE, dash |-> TRUE, slide |-> TRUE]

NoAbilities == [doubleJump |-> FALSE, dash |-> FALSE, slide |-> FALSE]

\* The movement state of a new Player beside its position (which the factory
\* holds); the invulnerability timer is in ms.
RestingPlayer ==
    [velocityX |-> 0, velocityY |-> 0, onGround |-> TRUE,
     canDoubleJump |-> FALSE, jumpCharges |-> 0,
     invulnerable |-> FALSE, invulnerabilityTimer |-> 0,
     abilities |-> AllAbilities]

\* Player.reset: the movement state is cleared, every ability is switched
\* off and the invulnerability timer is left as it was.
resetPlayer(body) ==
    [RestingPlayer EXCEPT !.abilities = NoAbilities,
                          !.invulnerabilityTimer = body.invulnerabilityTimer]

\* new PlayScene() after create(): `configured` tells whether
\* globalThis.GameConfig is set, `over` whether GameOverScene was started.
NewScene(configured) ==
    [gameState |-> FreshGameState, lastPatternSpawn |-> 0, body |-> RestingPlayer,
     configured |-> configured, over |-> FALSE, ticks |-> 0, restarts |-> 0,
     inputs |-> 0, frame |-> NoFrame]

\* rate * deltaSeconds for a frame of delta ms, rounded down:
\* floor(rate * delta / 1000) computed without the large product.
PerSecond(rate, delta) == (rate \div 1000) * delta + ((rate % 1000) * delta) \div 1000

\* Player.update: updatePhysics and updateInvulnerability.  Returns the
\* player's position and its movement state.  The air control factor
\* 1 - 0.15 * deltaSeconds is applied in whole px/s, rounded down.
PlayerUpdate(x, y, body, delta) ==
    LET fallen  == IF ~body.onGround
                   THEN body.velocityY + (Gravity * delta) \div 1000
                   ELSE body.velocityY
        landed  == y + HitboxH \div 2 >= GroundY
        y1      == IF landed THEN GroundY - HitboxH \div 2 ELSE y
        vy      == IF landed THEN 0 ELSE fallen
        charged == landed /\ body.abilities.doubleJump
        vx      == IF ~landed /\ body.velocityX # 0
                   THEN body.velocityX
                        - PerSecond(body.velocityX * AirControlPct, delta) \div 100
                   ELSE body.velocityX
        timer   == IF body.invulnerable THEN body.invulnerabilityTimer - delta
                   ELSE body.invulnerabilityTimer
    IN  [x |-> x + PerSecond(vx, delta),
         y |-> y1 + PerSecond(vy, delta),
         body |-> [body EXCEPT
                     !.velocityX = vx, !.velocityY = vy, !.onGround = landed,
                     !.jumpCharges = IF charged THEN 1 ELSE @,
                     !.canDoubleJump = IF charged THEN TRUE ELSE @,
                     !.invulnerable = @ /\ timer > 0,
                     !.invulnerabilityTimer = timer]]

\* The distance, speed and difficulty lines of updateGameplay.
Advance(gs, configured, delta) ==
    LET distance == gs.distance + gs.speed * delta
        gained   == gs.speed + (SpeedGainPerSec * delta) \div 1000
        speed    == IF configured
                    THEN (IF gained < MaxSpeed THEN gained ELSE MaxSpeed)
                    ELSE gs.speed
    IN  [gs EXCEPT !.distance = distance, !.speed = speed,
                   !.difficulty = distance \div (100 * MetreUnits) + 1]

\* Whether spawnPatterns asks for a pattern.
SpawnDue_EveryFrame(distance, lastPatternSpawn) == TRUE

SpawnDue(distance, lastPatternSpawn) ==
    distance \div (SpawnDistance * MetreUnits)
        > lastPatternSpawn \div (SpawnDistance * MetreUnits)

\* spawnPatterns when Math.random() returns draw / DrawSteps: the factory
\* and lastPatternSpawn after it, and the calls it made.  The distance is
\* handed to selectNextPattern in metres, rounded up.
spawnPatterns(f, gs, lastPatternSpawn, draw) ==
    IF SpawnDue(gs.distance, lastPatternSpawn)
    THEN LET r == selectNextPattern(f, gs.difficulty,
                                    (gs.distance + MetreUnits - 1) \div MetreUnits, draw)
         IN  [f |-> spawnFromPattern(r.f, r.pattern, SpawnX, SpawnY),
              lastPatternSpawn |-> gs.distance,
              trace |-> <<"selectNextPattern", "spawnFromPattern">>]
    ELSE [f |-> f, lastPatternSpawn |-> lastPatternSpawn, trace |-> <<>>]

\* Player.makeInvulnerable(duration), the duration in ms.
makeInvulnerable(body, duration) ==
    [body EXCEPT !.invulnerable = TRUE, !.invulnerabilityTimer = duration]

\* handlePlayerDeath: a life is lost; the last one starts GameOverScene,
\* any other puts the player back at its start, invulnerable for 2 s.
handlePlayerDeath(s, f) ==
    LET lives == s.gameState.lives - 1
    IN  IF lives <= 0
        THEN [scene |-> [s EXCEPT !.gameState.lives = lives, !.over = TRUE], f |-> f]
        ELSE [scene |-> [s EXCEPT !.gameState.lives = lives,
                                  !.body = makeInvulnerable(resetPlayer(s.body),
                                                            RespawnInvulnerableMs)],
              f |-> createPlayer(f, PlayerStartX, PlayerStartY)]

\* itemsCollected.forEach: progressManager.collectItem(effect.type,
\* effect.value || 1) at scene time `now`.
RECURSIVE RecordCollections(_, _, _)
RecordCollections(p, effects, now) ==
    IF effects = <<>> THEN p
    ELSE LET effect == Head(effects)
             value  == IF "value" \in DOMAIN effect /\ effect.value # 0
                       THEN effect.value ELSE 1
         IN  RecordCollections(collectItem(p, effect.type, value, now),
                               Tail(effects), now)

\* One call of a collaborator per collected item, for the trace.
CollectCalls(effects) == [i \in DOMAIN effects |-> "progressManager.collectItem"]

\* What spawnPatterns did, for the frame's record.
FrameOf(s, stepped, spawn, hit) ==
    [trace |-> <<"entityFactory.update", "player.update">>
               \o <<"spawnPatterns">> \o spawn.trace
               \o <<"entityFactory.processCollisions">>
               \o (IF hit.playerHit THEN <<"handlePlayerDeath">> ELSE <<>>)
               \o CollectCalls(hit.itemsCollected),
     requested |-> Cardinality({i \in DOMAIN spawn.trace :
                                  spawn.trace[i] = "selectNextPattern"}),
     spawned |-> Cardinality({i \in DOMAIN spawn.trace :
                                spawn.trace[i] = "spawnFromPattern"}),
     lastBefore |-> s.lastPatternSpawn,
     obstaclesBefore |-> stepped.activeObstacles,
     itemsBefore |-> stepped.activeItems]

\* updateGameplay from the collision results on: handlePlayerDeath, the
\* collection reports, the score, and the frame's record.
AfterCollisions(s, frame, died, hit, p, time) ==
    [scene |-> [died.scene EXCEPT
                  !.gameState.score = died.scene.gameState.distance \div (MetreUnits \div 10),
                  !.ticks = @ + 1,
                  !.frame = frame],
     f |-> died.f,
     p |-> RecordCollections(p, hit.itemsCollected, time),
     collected |-> hit.itemsCollected]

\* updateGameplay from processCollisions on.
AfterSpawn(s, placed, stepped, spawn, hit, p, time) ==
    AfterCollisions(s, FrameOf(s, stepped, spawn, hit),
                    IF hit.playerHit THEN handlePlayerDeath(placed, hit.f)
                    ELSE [scene |-> placed, f |-> hit.f],
                    hit, p, time)

\* updateGameplay from spawnPatterns on.
AfterAdvance(s, stepped, body, gs, spawn, p, time) ==
    AfterSpawn(s, [s EXCEPT !.gameState = gs, !.body = body,
                            !.lastPatternSpawn = spawn.lastPatternSpawn],
               stepped, spawn, processCollisions(spawn.f), p, time)

\* updateGameplay from player.update on.
AfterKinematics(s, moved, pl, p, time, delta, draw) ==
    AfterAdvance(s, [moved EXCEPT !.player = Some([x |-> pl.x, y |-> pl.y])],
                 pl.body,
                 Advance([s.gameState EXCEPT !.time = @ + delta], s.configured, delta),
                 spawnPatterns([moved EXCEPT !.player = Some([x |-> pl.x, y |-> pl.y])],
                               Advance([s.gameState EXCEPT !.time = @ + delta],
                                       s.configured, delta),
                               s.lastPatternSpawn, draw),
                 p, time)

\* gameState.time and updateGameplay(time, delta), statement by statement:
\* entityFactory.update, player.update, the distance, spawnPatterns,
\* processCollisions, handlePlayerDeath, the collection reports, the score.
updateGameplay(s, f, p, time, delta, draw) ==
    AfterKinematics(s, update(f, delta),
                    PlayerUpdate(update(f, delta).player[1].x,
                                 update(f, delta).player[1].y, s.body, delta),
                    p, time, delta, draw)

\* PlayScene.update(time, delta) with every frame simulated, paused or not.
sceneUpdate_IgnoresPause(s, f, p, time, delta, draw) ==
    updateGameplay(s, f, p, time, delta, draw)

\* PlayScene.update(time, delta): the frame is simulated unless the game is
\* paused; stateMachine.update then runs the update of the local state,
\* which is empty for both registered states.
sceneUpdate(s, f, p, time, delta, draw) ==
    IF ~s.gameState.paused
    THEN updateGameplay(s, f, p, time, delta, draw)
    ELSE [scene |-> [s EXCEPT !.ticks = @ + 1, !.frame = NoFrame],
          f |-> f, p |-> p, collected |-> <<>>]

\* PlayScene.pause and PlayScene.resume.
pause(s) == [s EXCEPT !.gameState.paused = TRUE]

resume(s) == [s EXCEPT !.gameState.paused = FALSE]

\* handlePause: P or ESC toggles the pause.
handlePause(s) == IF s.gameState.paused THEN resume(s) ELSE pause(s)

\* Player.jump: from the ground, or in the air on a jump charge.
jump(body) ==
    IF body.onGround
    THEN [ok |-> TRUE,
          body |-> [body EXCEPT !.velocityY = JumpVelocity, !.onGround = FALSE]]
    ELSE IF body.canDoubleJump /\ body.jumpCharges > 0
    THEN [ok |-> TRUE,
          body |-> [body EXCEPT !.velocityY = JumpVelocity,
                                !.jumpCharges = @ - 1,
                                !.canDoubleJump = body.jumpCharges - 1 > 0]]
    ELSE [ok |-> FALSE, body |-> body]

\* Player.dash({x: 1, y: -0.2})
dash(body) ==
    IF ~body.abilities.dash THEN [ok |-> FALSE, body |-> body]
    ELSE [ok |-> TRUE,
          body |-> [body EXCEPT !.velocityX = DashForce,
                                !.velocityY = 0 - DashForce \div 5,
                                !.invulnerable = TRUE,
                                !.invulnerabilityTimer = InvulnerableMs]]

\* Player.slide: only a tween on the sprite.
slide(body) ==
    [ok |-> body.onGround /\ body.abilities.slide, body |-> body]

\* What the player does on an input.
PlayerAct(body, action) ==
    CASE action = "jump" -> jump(body)
      [] action = "dash" -> dash(body)
      [] OTHER           -> slide(body)

\* handleJump / handleDash / handleSlide: nothing while paused; otherwise
\* the player acts and, when it did, recordJump / recordDash / recordSlide
\* counts it and saves.
handleInput(s, p, action) ==
    IF s.gameState.paused THEN [scene |-> s, p |-> p, saved |-> FALSE]
    ELSE LET r == PlayerAct(s.body, action)
         IN  IF r.ok
             THEN [scene |-> [s EXCEPT !.body = r.body], p |-> recordStat(p, action),
                   saved |-> TRUE]
             ELSE [scene |-> s, p |-> p, saved |-> FALSE]

(***************************************************************************)
(* The PlayScene driven frame by frame                                     *)
(***************************************************************************)

\* Frame lengths (ms) and the catalog the scene's factory is built over.
SceneDeltas == {25000, 50000}

SceneCatalog ==
    << CatalogEntry("easy_001",
         << [Element("spike", 0, 0) EXCEPT !.velocity = Some([x |-> -22, y |-> 0])],
            [Element("coin", 0, 1) EXCEPT !.velocity = Some([x |-> -44, y |-> 0])] >>) >>

SceneCatalogs == {<<>>, SceneCatalog}

\* One frame of Phaser: PlayScene.update(time, delta), whose results are r.
PlayFrame(r, delta) ==
    /\ ~scene.over
    /\ scene.ticks < MaxTicks
    /\ Len(r.f.activeObstacles) <= MaxActive
    /\ Len(r.f.activeItems) <= MaxActive
    /\ Len(r.f.obstacles) <= MaxInstances
    /\ Len(r.f.items) <= MaxInstances
    /\ Len(r.f.tweens) <= MaxTweens
    /\ scene' = r.scene
    /\ factory' = r.f
    /\ pm' = r.p
    /\ clock' = clock + delta
    /\ fLast' = [NoCall("processCollisions") EXCEPT !.itemsCollected = r.collected]
    /\ pLast' = PCall("updateGameplay", "")
    /\ granted' = Granted(pm')
    /\ poolTrack' = TrackOff
    /\ UNCHANGED <<scenario, localStorage>>

DoUpdateGameplay(delta, draw) ==
    /\ ~scene.gameState.paused
    /\ PlayFrame(sceneUpdate(scene, factory, Cleared, clock + delta, delta, draw), delta)

\* One frame of Phaser while the game is paused.
DoUpdatePaused(delta) ==
    /\ scene.gameState.paused
    /\ ~scene.over
    /\ scene.ticks < MaxTicks
    /\ scene' = sceneUpdate(scene, factory, pm, clock + delta, delta, 0).scene
    /\ factory' = sceneUpdate(scene, factory, pm, clock + delta, delta, 0).f
    /\ pm' = sceneUpdate(scene, factory, pm, clock + delta, delta, 0).p
    /\ clock' = clock + delta
    /\ pLast' = PCall("update", "")
    /\ UNCHANGED <<scenario, localStorage, granted, fLast, poolTrack>>

\* The P or ESC key.
DoHandlePause ==
    /\ ~scene.over
    /\ scene' = handlePause(scene)
    /\ pLast' = PCall("handlePause", "")
    /\ UNCHANGED <<factoryVars, pm, localStorage, clock, granted>>

\* The resumeCallback handed to PauseScene.
DoResumeCallback ==
    /\ ~scene.over
    /\ scene.gameState.paused
    /\ scene' = resume(scene)
    /\ pLast' = PCall("resume", "")
    /\ UNCHANGED <<factoryVars, pm, localStorage, clock, granted>>

\* The keys and the pointer: space or a click jumps, shift dashes, down or
\* S slides.
Inputs == {"jump", "dash", "slide"}

DoHandleInput(action) ==
    /\ ~scene.over
    /\ scene.inputs < MaxInputs
    /\ LET r == handleInput(scene, pm, action)
       IN  /\ scene' = [r.scene EXCEPT !.inputs = @ + 1]
           /\ pm' = IF r.saved THEN [r.p EXCEPT !.log = <<>>] ELSE pm
           /\ localStorage' = IF r.saved THEN saveProgressData(r.p, localStorage, TRUE)
                               ELSE localStorage
           /\ pLast' = [PCall("handleInput", action) EXCEPT !.saved = r.saved]
    /\ UNCHANGED <<factoryVars, clock, granted>>

\* PlayScene.enter: resetGameState.
DoEnter ==
    /\ scene.restarts < MaxRestarts
    /\ scene' = [scene EXCEPT !.gameState = FreshGameState, !.restarts = @ + 1,
                              !.frame = NoFrame]
    /\ UNCHANGED <<factoryVars, progressVars>>

\* scene.restart(): create() builds a new factory, player and
\* ProgressManager; the fields of the scene object stay.
DoCreate ==
    /\ scene.restarts < MaxRestarts
    /\ scene' = [scene EXCEPT !.body = RestingPlayer, !.over = FALSE,
                              !.restarts = @ + 1, !.frame = NoFrame]
    /\ factory' = FactoryReady(factory.patterns)
    /\ pm' = NewProgressManager(localStorage, TRUE)
    /\ fLast' = NoCall("new")
    /\ pLast' = PCall("new", "")
    /\ granted' = NoneGranted
    /\ poolTrack' = TrackOff
    /\ UNCHANGED <<scenario, localStorage, clock>>

SceneIdle == scene = NewScene(FALSE)

\* The scene as create() leaves it, for the frames with pauses and inputs.
PauseDeltas == {25000}

PauseInit ==
    /\ scenario = "pause"
    /\ factory = FactoryReady(SceneCatalog)
    /\ scene = NewScene(TRUE)
    /\ fLast = NoCall("new")
    /\ poolTrack = TrackOff
    /\ pm = FreshProgress
    /\ localStorage = Absent
    /\ clock = 0
    /\ pLast = PCall("new", "")
    /\ granted = NoneGranted

\* A catalog whose one pattern puts two spikes that do not move where the
\* player starts, and the frame lengths (ms) played over it.
LivesCatalog ==
    << CatalogEntry("wall_001", << Element("spike", -22, -1), Element("saw", -22, -1) >>) >>

LivesDeltas == {1000, 25000, 75000}

LivesInit ==
    /\ scenario = "lives"
    /\ factory = FactoryReady(LivesCatalog)
    /\ \E configured \in BOOLEAN : scene = NewScene(configured)
    /\ fLast = NoCall("new")
    /\ poolTrack = TrackOff
    /\ pm = FreshProgress
    /\ localStorage = Absent
    /\ clock = 0
    /\ pLast = PCall("new", "")
    /\ granted = NoneGranted

\* The scene as create() leaves it, over either catalog, with or without a
\* GameConfig.
SceneInit ==
    /\ scenario = "scene"
    /\ \E catalog \in SceneCatalogs : factory = FactoryReady(catalog)
    /\ \E configured \in BOOLEAN : scene = NewScene(configured)
    /\ fLast = NoCall("new")
    /\ poolTrack = TrackOff
    /\ pm = FreshProgress
    /\ localStorage = Absent
    /\ clock = 0
    /\ pLast = PCall("new", "")
    /\ granted = NoneGranted

(***************************************************************************)
(* Claims about the StateMachine                                           *)
(***************************************************************************)

Count(c, seq) == Cardinality({i \in DOMAIN seq : seq[i] = c})

\* A popState call made directly after a successful pushState that found a
\* current state A: smLast.prev is the push, smLast.call the pop.
PushThenPop ==
    /\ smLast.call.op = "pop"
    /\ smLast.prev.op = "push"
    /\ smLast.prev.ret
    /\ smLast.prev.preState # NoState

PushPopBalanced ==
    LET A     == smLast.prev.preState
        AName == smLast.prev.preName
        calls == smLast.prev.calls \o smLast.call.calls
    IN  /\ currentStateName = AName
        /\ Len(stateStack) = smLast.prev.preDepth
        /\ HasResume(A) => Count(Call("resume", A), smLast.call.calls) = 1
        /\ Count(Call("enter", A), calls) = 0
        /\ Count(Call("exit", A), calls) = 0

C2_PopEmptyNoOp ==
    [][(smLast'.call.op = "pop" /\ Len(stateStack) = 0)
        => /\ smLast'.call.ret = FALSE
           /\ smLast'.call.calls = <<>>
           /\ UNCHANGED <<states, stateStack, currentState, currentStateName,
                          transitions>>]_vars

C2_Witness ==
    /\ smLast.call.op = "pop"
    /\ smLast.call.preDepth = 0
    /\ smLast.call.ret = FALSE
    /\ currentState # NoState
    /\ Len(transitions) > 0

\* C3: pushState(name) and replaceState(name) with a name never registered
\* return false, invoke no callback and leave current state, name, stack and
\* transition history unchanged.
C3_UnknownNameNoOp ==
    [][(smLast'.call.op \in {"push", "replace"} /\ states[smLast'.call.arg] = NoState)
        => /\ smLast'.call.ret = FALSE
           /\ smLast'.call.calls = <<>>
           /\ UNCHANGED <<states, stateStack, currentState, currentStateName,
                          transitions>>]_vars

C3_Witness ==
    /\ smLast.call.op \in {"push", "replace"}
    /\ smLast.call.ret = FALSE
    /\ states[smLast.call.arg] = NoState
    /\ currentState # NoState
    /\ Len(stateStack) > 0

\* C4: every update(time, delta) call invokes update on at most one state,
\* the current one; a state that is only reachable through a name on the
\* stack (it is not the current state object) receives no update.
C4_OnlyCurrentUpdated ==
    smLast.call.op = "update" =>
        /\ Len(smLast.call.calls) <= 1
        /\ \A i \in DOMAIN smLast.call.calls :
              smLast.call.calls[i] = Call("update", currentState)
        /\ currentState # NoState => Len(smLast.call.calls) = 1
        /\ \A i \in DOMAIN stateStack :
              states[stateStack[i]] # currentState
                => Count(Call("update", states[stateStack[i]]), smLast.call.calls) = 0

C4_Witness ==
    /\ smLast.call.op = "update"
    /\ Len(stateStack) > 0
    /\ states[stateStack[1]] # currentState
    /\ smLast.call.calls = <<Call("update", currentState)>>
    /\ smLast.prev.op = "push"


\* C25: replaceState(name) with a registered name calls exit once on the
\* previous current state (if any), then enter once on the new state, makes
\* it current and leaves the stack as it was, whatever its depth.
C25_ReplaceState ==
    [][(smLast'.call.op = "replace" /\ states[smLast'.call.arg] # NoState)
        => /\ smLast'.call.ret = TRUE
           /\ smLast'.call.calls =
                 (IF currentState # NoState
                  THEN <<Call("exit", currentState)>> ELSE <<>>)
                 \o <<Call("enter", states[smLast'.call.arg])>>
           /\ currentState' = states[smLast'.call.arg]
           /\ currentStateName' = smLast'.call.arg
           /\ stateStack' = stateStack
           /\ states' = states]_vars

\* A replace over a non-empty stack, from a state that has pause and resume.
C25_Witness ==
    /\ smLast.call.op = "replace"
    /\ smLast.call.ret
    /\ smLast.call.preState = "full"
    /\ smLast.call.preDepth >= 1
    /\ Len(stateStack) = smLast.call.preDepth
    /\ smLast.call.calls = <<Call("exit", "full"), Call("enter", currentState)>>
    /\ currentStateName = smLast.call.arg

\* What pushState does besides the stack: pause (if defined) and never exit
\* on the previous current state, then enter on the new state, which
\* becomes current.
PushTransition ==
    /\ smLast'.call.ret = TRUE
    /\ smLast'.call.calls =
          (IF currentState # NoState /\ HasPause(currentState)
           THEN <<Call("pause", currentState)>> ELSE <<>>)
          \o <<Call("enter", states[smLast'.call.arg])>>
    /\ currentState' = states[smLast'.call.arg]
    /\ currentStateName' = smLast'.call.arg
    /\ states' = states

C27_StackWellFormed ==
    /\ [](/\ \A i \in DOMAIN stateStack :
                /\ stateStack[i] \in StateNames
                /\ stateStack[i] # ""
                /\ states[stateStack[i]] # NoState
          /\ (smLast.call.op = "pop" /\ smLast.call.preDepth > 0) => smLast.call.ret)
    /\ [][Len(stateStack') > Len(stateStack) =>
            /\ smLast'.call.op = "push"
            /\ currentState # NoState
            /\ stateStack' = Append(stateStack, currentStateName)]_vars

\* A pop that found the state a push had covered, after that name was
\* registered again with another state object.
C27_Witness ==
    /\ smLast.call.op = "pop"
    /\ smLast.call.preDepth >= 1
    /\ smLast.call.ret
    /\ Len(stateStack) = smLast.call.preDepth - 1
    /\ smLast.prev.op = "add"
    /\ smLast.prev.arg = currentStateName
    /\ states[currentStateName] = currentState

(***************************************************************************)
(* Claims about the EntityFactory's pools                                  *)
(***************************************************************************)

\* The sweep released N >= 1 pooled instances of the class and exactly N
\* acquires of that class followed it.
ReleasedThenAcquired ==
    /\ poolTrack.on
    /\ poolTrack.released # {}
    /\ Len(poolTrack.acquired) = Cardinality(poolTrack.released)

\* No storage was allocated: the pool array and the set of instances are
\* as long as they were before the sweep.
NoNewStorage ==
    /\ Len(ClassPool(factory)) = poolTrack.poolLen
    /\ Len(ClassStore(factory)) = poolTrack.instances

\* C5 as stated: after N pooled entities of one class are released by the
\* sweep and N are then acquired, the pool array has the same length, no
\* instance was constructed, and the acquired instances are exactly the
\* released ones.
C5_AcquiredAreReleased ==
    ReleasedThenAcquired =>
        NoNewStorage /\ Range(poolTrack.acquired) = poolTrack.released

\* C5, amended: after N pooled entities of one class are released by the
\* sweep and N are then acquired, the pool array has the same length, no
\* instance was constructed and every acquired instance is a pooled one; the
\* acquired instances are exactly the released ones when every other
\* instance of the pool was active at the sweep.
C5_PoolReuse ==
    ReleasedThenAcquired =>
        /\ NoNewStorage
        /\ Range(poolTrack.acquired) \subseteq Range(ClassPool(factory))
        /\ poolTrack.othersActive =>
             Range(poolTrack.acquired) = poolTrack.released

\* One of two pooled instances was released while the other stayed active,
\* and one acquire followed.
C5_Witness ==
    /\ ReleasedThenAcquired
    /\ poolTrack.othersActive
    /\ Range(ClassPool(factory)) \ poolTrack.released # {}
    /\ fLast.op \in {"spawnObstacle", "spawnItem"}
    /\ ~fLast.created

\* C6: a spawn made while every instance of the pool is active allocates a
\* new instance and appends it to the pool, whose length grows by one.
C6_PoolGrowsOnExhaustion ==
    (fLast.op \in {"spawnObstacle", "spawnItem"} /\ fLast.exhausted) =>
        LET pool == IF fLast.op = "spawnItem" THEN factory.itemPool
                                              ELSE factory.obstaclePool
        IN  /\ fLast.created
            /\ Len(pool) = fLast.prePool + 1
            /\ fLast.id \in Range(pool)

\* C7: under every interleaving of spawnItem, update, processCollisions and
\* the completion of collection animations, every entry of activeItems is
\* active, no item is in activeItems twice, and the item the pool scan
\* returns for reuse is not in activeItems at that moment.
C7_PooledOrLive ==
    /\ \A i \in DOMAIN factory.activeItems :
         factory.items[factory.activeItems[i]].isActive
    /\ \A i, j \in DOMAIN factory.activeItems :
         i # j => factory.activeItems[i] # factory.activeItems[j]
    /\ fLast.op = "spawnItem" => ~fLast.reusedLive

\* C11: a processCollisions() call reports an effect only for items that
\* were not collected when it was called, marks each of them collected, and
\* reports no item twice: a collected item yields no further effect until
\* an acquire resets it.
C11_CollectedOnce ==
    [][fLast'.op = "processCollisions" =>
         /\ Len(fLast'.itemsCollected) = Len(fLast'.ids)
         /\ \A i \in DOMAIN fLast'.ids :
              /\ ~factory.items[fLast'.ids[i]].isCollected
              /\ factory'.items[fLast'.ids[i]].isCollected
         /\ \A i, j \in DOMAIN fLast'.ids : i # j => fLast'.ids[i] # fLast'.ids[j]
         /\ \A id \in DOMAIN factory.items :
              factory.items[id].isCollected =>
                  \A i \in DOMAIN fLast'.ids : fLast'.ids[i] # id]_vars

\* processCollisions was called, and reported nothing, while a collected
\* item still in activeItems overlapped the player.
C11_Witness ==
    /\ fLast.op = "processCollisions"
    /\ fLast.itemsCollected = <<>>
    /\ \E id \in Range(factory.activeItems) :
         /\ factory.items[id].isCollected
         /\ factory.items[id].isActive
         /\ factory.items[id].x = factory.player[1].x
         /\ factory.items[id].y = factory.player[1].y

\* C18: immediately after EntityFactory.update no entity left in an active
\* list has x < -200 and no item left in activeItems is collected; every
\* entity the sweep removed is inactive; and the entities with x >= -200
\* that are not collected stay in the active lists, in order, with their
\* active flag as it was.
C18_OffScreenSweep ==
    [][fLast'.op = "update" =>
         /\ \A id \in Range(factory'.activeObstacles) : factory'.obstacles[id].x >= -200
         /\ \A id \in Range(factory'.activeItems) :
              factory'.items[id].x >= -200 /\ ~factory'.items[id].isCollected
         /\ \A id \in Range(factory.activeObstacles) \ Range(factory'.activeObstacles) :
              ~factory'.obstacles[id].isActive
         /\ \A id \in Range(factory.activeItems) \ Range(factory'.activeItems) :
              ~factory'.items[id].isActive
         /\ factory'.activeObstacles =
              SelectSeq(factory.activeObstacles,
                        LAMBDA id : factory'.obstacles[id].x >= -200)
         /\ factory'.activeItems =
              SelectSeq(factory.activeItems,
                        LAMBDA id : factory'.items[id].x >= -200
                                    /\ ~factory'.items[id].isCollected)
         /\ \A id \in Range(factory'.activeObstacles) :
              factory'.obstacles[id].isActive = factory.obstacles[id].isActive
         /\ \A id \in Range(factory'.activeItems) :
              factory'.items[id].isActive = factory.items[id].isActive]_vars

\* An update swept one obstacle and kept another that stands exactly at
\* x = -200.
C18_Witness ==
    /\ fLast.op = "update"
    /\ poolTrack.released # {}
    /\ \E id \in Range(factory.activeObstacles) :
         factory.obstacles[id].x = -200 /\ factory.obstacles[id].isActive
    /\ \E id \in DOMAIN factory.obstacles :
         factory.obstacles[id].x < -200 /\ ~factory.obstacles[id].isActive

\* C24: an entity acquired by spawnObstacle or spawnItem carries nothing of
\* its previous life: without a velocity in the descriptor its velocity is
\* zero, an obstacle is deadly exactly when its new kind is, and an item
\* spawned without a value has the value of its kind and is not collected.
C24_ResetOnReuse ==
    /\ fLast.op = "spawnObstacle" =>
         LET o == factory.obstacles[fLast.id]
         IN  /\ fLast.data.velocity = Absent => o.velocityX = 0 /\ o.velocityY = 0
             /\ o.isDeadly = (o.obstacleType # "moving_platform")
             /\ o.isActive
    /\ fLast.op = "spawnItem" =>
         LET it == factory.items[fLast.id]
         IN  /\ fLast.data.velocity = Absent => it.velocityX = 0 /\ it.velocityY = 0
             /\ fLast.data.value = 0 => it.value = DefaultItemValue
             /\ ~it.isCollected
             /\ it.isActive

\* The items a processCollisions call must collect: the active, uncollected
\* items of activeItems that overlap the player.
Collectable(f) ==
    {id \in Range(f.activeItems) :
       /\ f.items[id].isActive
       /\ ~f.items[id].isCollected
       /\ Overlaps(Bounds(f.items[id].x, f.items[id].y, ItemSize, ItemSize),
                   PlayerBounds(f.player[1]))}

\* C32: one processCollisions call reports exactly one effect, its own, for
\* every active, uncollected item overlapping the player and flags each of
\* them collected, whether or not the call reports playerHit.
C32_CollectsEveryOverlap ==
    [][(fLast'.op = "processCollisions" /\ factory.player # Absent) =>
         /\ Range(fLast'.ids) = Collectable(factory)
         /\ Len(fLast'.ids) = Cardinality(Collectable(factory))
         /\ Len(fLast'.itemsCollected) = Len(fLast'.ids)
         /\ \A i \in DOMAIN fLast'.ids :
              /\ fLast'.itemsCollected[i] = ItemEffect(factory.items[fLast'.ids[i]])
              /\ factory'.items[fLast'.ids[i]].isCollected]_vars

\* A call that reported playerHit and collected two items, while a third
\* item stood clear of the player.
C32_Witness ==
    /\ fLast.op = "processCollisions"
    /\ fLast.playerHit
    /\ Len(fLast.ids) = 2
    /\ \E id \in Range(factory.activeItems) : ~factory.items[id].isCollected

(***************************************************************************)
(* Claims about pattern selection and instantiation                        *)
(***************************************************************************)

\* C8: selectNextPattern(d, distance) returns a catalog pattern whose tier
\* is at most d whenever the catalog has one, and the default pattern
\* exactly when it has none, whatever the distance and the random draw.
C8_SelectionBounds ==
    fLast.op = "selectNextPattern" =>
        LET d == fLast.difficulty
            returned == fLast.pattern[1]
            eligible == {i \in DOMAIN factory.patterns :
                           getDifficultyFromName(factory.patterns[i].name) <= d}
        IN  IF eligible # {}
            THEN \E i \in eligible : returned = factory.patterns[i]
            ELSE returned = createDefaultPattern

\* A pattern of the catalog was returned while the catalog also holds a
\* pattern of a tier above d.
C8_Witness ==
    /\ fLast.op = "selectNextPattern"
    /\ fLast.pattern[1] # createDefaultPattern
    /\ getDifficultyFromName(fLast.pattern[1].name) = 2
    /\ \E i \in DOMAIN factory.patterns :
         factory.patterns[i].difficulty > fLast.difficulty
    /\ \E i \in DOMAIN factory.patterns :
         factory.patterns[i].difficulty < fLast.difficulty

\* C9: instantiating the default pattern that selectNextPattern returned
\* acquires two obstacles and two items: activeObstacles and activeItems
\* each grow by two.
C9_DefaultPatternSpawns ==
    (fLast.op = "spawnFromPattern" /\ fLast.pattern = Some(createDefaultPattern)) =>
        /\ Len(factory.activeObstacles) = fLast.preObstacles + 2
        /\ Len(factory.activeItems) = fLast.preItems + 2

\* The weights of the candidates of the selection recorded in fLast, in
\* catalog order, and the sum of the first i of them.
CandidateWeights ==
    LET candidates == getPatternsByDifficulty(factory, fLast.difficulty)
    IN  [i \in DOMAIN candidates |->
           calculatePatternWeight(candidates[i], fLast.difficulty, fLast.distance)]

Cumulative(i) == SumWeights(SubSeq(CandidateWeights, 1, i))

\* C29: with candidates in catalog order and the draw
\* r = (draw / DrawSteps) * totalWeight, selectNextPattern returns the
\* candidate of the lowest index whose cumulative weight is >= r, and
\* records it as currentPattern.
C29_WeightedSelection ==
    (/\ fLast.op = "selectNextPattern"
     /\ getPatternsByDifficulty(factory, fLast.difficulty) # <<>>) =>
        LET candidates == getPatternsByDifficulty(factory, fLast.difficulty)
            total == Cumulative(Len(candidates))
        IN  \E i \in DOMAIN candidates :
              /\ DrawSteps * Cumulative(i) >= fLast.draw * total
              /\ \A j \in 1..(i - 1) : DrawSteps * Cumulative(j) < fLast.draw * total
              /\ fLast.pattern = Some(candidates[i])
              /\ factory.currentPattern = Some(candidates[i])

\* Three candidates of different weights; the draw fell beyond the weight
\* of the first and the second was returned.
C29_Witness ==
    /\ fLast.op = "selectNextPattern"
    /\ Len(CandidateWeights) = 3
    /\ CandidateWeights[1] # CandidateWeights[2]
    /\ CandidateWeights[2] # CandidateWeights[3]
    /\ fLast.draw * Cumulative(3) > DrawSteps * Cumulative(1)
    /\ fLast.pattern = Some(getPatternsByDifficulty(factory, fLast.difficulty)[2])

\* max(0.1, 1 - 0.3 * |t - d|) in hundredths.
TierWeight(t, d) == Max(10, 100 - 30 * Abs(t - d))

\* C30: every candidate of the selection weighs max(0.1, 1 - 0.3 * |t - d|),
\* times 1.5 when the distance is beyond 1000 and the pattern is tagged
\* challenge in the catalog; every weight is at least 0.1 and their total is
\* positive.
C30_PatternWeight ==
    (/\ fLast.op = "selectNextPattern"
     /\ getPatternsByDifficulty(factory, fLast.difficulty) # <<>>) =>
        LET candidates == getPatternsByDifficulty(factory, fLast.difficulty)
        IN  /\ \A i \in DOMAIN candidates :
                 /\ CandidateWeights[i] >= 10
                 /\ CandidateWeights[i] =
                      IF fLast.distance > 1000 /\ candidates[i].dataType = "challenge"
                      THEN (TierWeight(getDifficultyFromName(candidates[i].name),
                                       fLast.difficulty) * 3) \div 2
                      ELSE TierWeight(getDifficultyFromName(candidates[i].name),
                                      fLast.difficulty)
            /\ Cumulative(Len(candidates)) > 0

(***************************************************************************)
(* Claims about collision resolution                                       *)
(***************************************************************************)

\* ax < bx+bw && ax+aw > bx && ay < by+bh && ay+ah > by for the obstacle's
\* square around (o.x, o.y) and the player's hitbox around the player.
StrictlyOverlapsPlayer(o) ==
    LET ax == o.x - ObstacleSize \div 2
        ay == o.y - ObstacleSize \div 2
        bx == factory.player[1].x - HitboxW \div 2
        by == factory.player[1].y - HitboxH \div 2
    IN  /\ ax < bx + HitboxW
        /\ ax + ObstacleSize > bx
        /\ ay < by + HitboxH
        /\ ay + ObstacleSize > by

\* C10: processCollisions() returns playerHit = true if and only if some
\* active obstacle strictly overlapping the player's bounds is deadly.
C10_CollisionClassification ==
    fLast.op = "processCollisions" =>
        (fLast.playerHit <=>
            \E id \in DOMAIN factory.obstacles :
                /\ factory.obstacles[id].isActive
                /\ factory.obstacles[id].isDeadly
                /\ StrictlyOverlapsPlayer(factory.obstacles[id]))

\* processCollisions returned playerHit = false while a non-deadly platform
\* overlapped the player and a deadly obstacle touched the player's edge.
C10_Witness ==
    /\ fLast.op = "processCollisions"
    /\ ~fLast.playerHit
    /\ \E id \in Range(factory.activeObstacles) :
         /\ ~factory.obstacles[id].isDeadly
         /\ StrictlyOverlapsPlayer(factory.obstacles[id])
    /\ \E id \in Range(factory.activeObstacles) :
         /\ factory.obstacles[id].isDeadly
         /\ factory.obstacles[id].x = 130

(***************************************************************************)
(* Claims about the ProgressManager                                        *)
(***************************************************************************)

\* C12: in every reachable state comboMultiplier is 1 when combo is 0 and
\* min(1 + 0.1 * (combo - 1), 5) when combo >= 1 (here in tenths), so it
\* never exceeds 5.0 and is 5.0 from combo 41 on; and a collectItem that
\* directly follows a collectItem never lowers the multiplier.
C12_ComboMultiplier ==
    /\ [](/\ pm.combo = 0 => pm.comboMultiplier = 10
          /\ pm.combo >= 1 =>
               pm.comboMultiplier = (IF pm.combo <= 40 THEN 9 + pm.combo ELSE 50)
          /\ pm.comboMultiplier <= 50
          /\ pm.combo >= 41 => pm.comboMultiplier = 50)
    /\ [][(pLast.op = "collectItem" /\ pLast'.op = "collectItem") =>
            /\ pm'.combo = pm.combo + 1
            /\ pm'.comboMultiplier >= pm.comboMultiplier]_vars

\* Forty-one coins collected in a row: the multiplier has just reached 5.0.
C12_Witness ==
    /\ pLast.op = "collectItem"
    /\ pm.combo = 41
    /\ pm.coins = 41
    /\ pm.comboMultiplier = 50

\* C13: recordAction('death') sets combo to 0 and comboMultiplier to 1 and
\* adds exactly one to stats.totalDeaths, whatever the combo was; the
\* collectItem that follows it returns combo 1 and awards the item's base
\* score, that is, with multiplier 1.0.
C13_DeathBreaksCombo ==
    [][/\ (pLast'.op = "recordAction" /\ pLast'.arg = "death") =>
            /\ pm'.combo = 0
            /\ pm'.comboMultiplier = 10
            /\ pm'.stats.totalDeaths = pm.stats.totalDeaths + 1
       /\ (pLast.op = "recordAction" /\ pLast.arg = "death"
             /\ pLast'.op = "collectItem") =>
            /\ pLast'.ret.combo = 1
            /\ pm'.combo = 1
            /\ pm'.comboMultiplier = 10
            /\ pLast'.ret.score = 100
            /\ pm'.score = pm.score + 100]_vars

\* Seven stars in a row, a death, and then the eighth star.
C13_Witness ==
    /\ pLast.op = "collectItem"
    /\ clock = 0
    /\ pm.stars = 8
    /\ pm.stats.totalDeaths = 1
    /\ pm.combo = 1
    /\ pLast.ret = [score |-> 100, combo |-> 1]

\* C14: between two resetSession calls every achievement id is unlocked, and
\* granted its bonus, at most once, and every distance milestone grants its
\* milestone bonus at most once.
C14_GrantedOnce ==
    \A id \in AchievementIds \cup MilestoneIds : granted[id] <= 1

\* An update that found the 500 m milestone reached and no death recorded,
\* as an earlier update of the session had, and unlocked nothing.
C14_Witness ==
    /\ pLast.op = "update"
    /\ pm.log = <<>>
    /\ pm.distance >= 500
    /\ pm.stats.totalDeaths = 0
    /\ granted["no_death_500"] = 1
    /\ granted["distance_500"] = 1
    /\ granted["milestone_500"] = 1

\* C15: when a save that did not fail is followed by the construction of a
\* manager whose load does not fail, the new manager has the saved manager's
\* highScore, stats and set of (achievement id, unlocked) pairs.
C15_RoundTrip ==
    [][(pLast.op = "endGame" /\ pLast.saved /\ pLast'.op = "new" /\ pLast'.readOk) =>
         /\ pm'.highScore = pm.highScore
         /\ pm'.stats = pm.stats
         /\ {pm'.achievements[i] : i \in DOMAIN pm'.achievements}
              = {pm.achievements[i] : i \in DOMAIN pm.achievements}]_vars

\* A manager loaded from a record that holds a high score, a best time and
\* several achievements.
C15_Witness ==
    /\ pLast.op = "new"
    /\ pLast.readOk
    /\ localStorage # Absent
    /\ localStorage = Some(Stringify(pm))
    /\ pm.highScore > 0
    /\ pm.stats.bestTime > 0
    /\ Len(pm.achievements) >= 3

\* C16: when the load of a new manager fails (the read throws, the text is
\* unparsable or null, or achievements is no iterable of entries) the manager
\* has highScore 0, all-zero stats and no achievements.
C16_LoadFailureDefaults ==
    (/\ pLast.op = "new"
     /\ \/ ~pLast.readOk
        \/ localStorage = Absent
        \/ localStorage # Absent /\ localStorage[1].kind # "object"
        \/ localStorage # Absent /\ localStorage[1].achievements.kind = "malformed")
    => /\ pm.highScore = 0
       /\ pm.stats = DefaultStats
       /\ pm.achievements = <<>>

\* C20 (as the code has it): endGame sets stats.bestTime to the session's
\* time exactly when distance >= 1000 and (bestTime = 0 or time < bestTime),
\* and leaves it otherwise, so a non-zero bestTime never grows in endGame;
\* endGame then saves: the store holds the record when the write succeeds
\* and is left as it was when the write throws.
C20_BestTime ==
    [][pLast'.op = "endGame" =>
         /\ pm'.stats.bestTime =
              (IF pm.distance >= 1000
                    /\ (pm.stats.bestTime = 0 \/ pm.time < pm.stats.bestTime)
               THEN pm.time ELSE pm.stats.bestTime)
         /\ pm.stats.bestTime # 0 => pm'.stats.bestTime <= pm.stats.bestTime
         /\ pLast'.saved =>
              /\ localStorage' # Absent
              /\ localStorage'[1].stats = Some(pm'.stats)
              /\ localStorage'[1].highScore = Some(pm'.highScore)
         /\ ~pLast'.saved => localStorage' = localStorage]_vars

\* A second game that reached 1000 m faster than the stored best time.
C20_Witness ==
    /\ pLast.op = "endGame"
    /\ pLast.saved
    /\ pm.distance >= 1000
    /\ pm.time = 1
    /\ pm.stats.bestTime = 1
    /\ clock >= 3000

\* C20 (as stated): the best-time rule, and every endGame leaves the record
\* in the store.
C20_AlwaysPersists ==
    [][pLast'.op = "endGame" =>
         /\ pm'.stats.bestTime =
              (IF pm.distance >= 1000
                    /\ (pm.stats.bestTime = 0 \/ pm.time < pm.stats.bestTime)
               THEN pm.time ELSE pm.stats.bestTime)
         /\ pm.stats.bestTime # 0 => pm'.stats.bestTime <= pm.stats.bestTime
         /\ localStorage' # Absent
         /\ localStorage'[1].kind = "object"
         /\ localStorage'[1].stats = Some(pm'.stats)]_vars

\* C22: the points a collectItem returned are still part of the score after
\* the update that follows it: the score is then at least what update
\* derives from the distance plus those points.
C22_AwardedPointsPersist ==
    [][(pLast.op = "collectItem" /\ pLast'.op = "update") =>
         pm'.score >= pm'.distance * 10
                        + calculateBonusScore([pm EXCEPT !.time = pm'.time])
                        + pLast.ret.score]_vars

\* The fixed amount of an unlock or milestone bonus: 500 for an achievement,
\* twice the threshold for a milestone.
FixedBonus(id) ==
    IF id \in AchievementIds THEN 500
    ELSE 2 * (CHOOSE m \in Range(milestones) : MilestoneId(m) = id)

RECURSIVE SumFixedBonus(_)
SumFixedBonus(log) ==
    IF log = <<>> THEN 0 ELSE FixedBonus(Head(log)) + SumFixedBonus(Tail(log))

\* C23: whatever the combo and its multiplier, an update adds 500 to the
\* score it derives from the distance for every achievement it unlocks and
\* twice the threshold for every milestone it finds reached.
C23_FixedBonus ==
    [][pLast'.op = "update" =>
         pm'.score = pm'.distance * 10
                       + calculateBonusScore([pm EXCEPT !.time = pm'.time])
                       + SumFixedBonus(pm'.log)]_vars

\* C33: immediately after every update, level = floor(distance / 200) + 1,
\* difficulty = floor(distance / 100) + 1 and the score is
\* floor(distance * 10) plus the bonus evaluated with those level and
\* difficulty values.
C33_DerivedProgression ==
    pLast.op = "update" =>
        /\ pm.level = pm.distance \div 200 + 1
        /\ pm.difficulty = pm.distance \div 100 + 1
        /\ pm.score = pm.distance * 10 + calculateBonusScore(pm)

\* C34: update(time, delta) sets combo to 0 and comboMultiplier to 1 when
\* combo > 0 and time - lastCollectionTime > 3000 ms, and otherwise leaves
\* both as they were; every collectItem sets lastCollectionTime to the time
\* of the collection.
C34_ComboTimeout ==
    [][/\ pLast'.op = "update" =>
            IF pm.combo > 0 /\ clock' - pm.lastCollectionTime > 3000
            THEN pm'.combo = 0 /\ pm'.comboMultiplier = 10
            ELSE pm'.combo = pm.combo /\ pm'.comboMultiplier = pm.comboMultiplier
       /\ pLast'.op = "collectItem" =>
            /\ pm'.lastCollectionTime = clock
            /\ clock' = clock]_vars

\* An update found a combo of two whose last collection, made after an
\* earlier update, was more than 3000 ms old, and reset it.
C34_Witness ==
    /\ pLast.op = "update"
    /\ pm.combo = 0
    /\ pm.comboMultiplier = 10
    /\ pm.maxCombo >= 2
    /\ pm.stats.totalDeaths = 0
    /\ pm.lastCollectionTime > 0
    /\ clock - pm.lastCollectionTime > 3000

\* C35: resetSession sets score, distance, time, combo and the coin, gem
\* and star counters to 0, level, difficulty and comboMultiplier to 1 and
\* clears the reached milestones, and leaves highScore, the stats and the
\* achievements as they were; no call but the construction of a manager,
\* which loads, removes an achievement or lowers highScore.
C35_ResetSessionFrame ==
    [][/\ pLast'.op = "resetSession" =>
            /\ pm'.score = 0 /\ pm'.distance = 0 /\ pm'.time = 0 /\ pm'.combo = 0
            /\ pm'.coins = 0 /\ pm'.gems = 0 /\ pm'.stars = 0
            /\ pm'.level = 1 /\ pm'.difficulty = 1 /\ pm'.comboMultiplier = 10
            /\ pm'.reachedMilestones = {}
            /\ pm'.highScore = pm.highScore
            /\ pm'.stats = pm.stats
            /\ pm'.achievements = pm.achievements
       /\ pLast'.op # "new" =>
            /\ pm'.highScore >= pm.highScore
            /\ \A i \in DOMAIN pm.achievements :
                 Has(pm'.achievements, pm.achievements[i][1])]_vars

\* A session that travelled, scored and unlocked achievements was reset.
C35_Witness ==
    /\ pLast.op = "resetSession"
    /\ pm.score = 0
    /\ pm.highScore > 0
    /\ Len(pm.achievements) >= 2
    /\ pm.stats.fastestSpeed > 0
    /\ pm.stats.totalDeaths > 0

\* The descriptors of `data` whose kind is in `kinds`.
DescriptorsOf(data, kinds) == {i \in DOMAIN data : data[i].type \in kinds}

\* The instances a call appended to an active list.
Appended(before, after) == SubSeq(after, Len(before) + 1, Len(after))

\* C36: for a pattern whose data is an array, spawnFromPattern acquires one
\* entity for every descriptor whose kind is in the obstacle or the item
\* table and none for any other kind; every obstacle so spawned is a spike,
\* a saw or a block, every item a coin, a gem or a star, and no descriptor
\* spawns both an obstacle and an item.
C36_DescriptorClassification ==
    [][(fLast'.op = "spawnFromPattern" /\ PatternData(fLast'.pattern[1]) # Absent) =>
         LET data == PatternData(fLast'.pattern[1])[1]
             asObstacle == DescriptorsOf(data, {"spike_low", "spike_high", "spike", "saw",
                                                "block", "moving_obstacle", "falling_platform"})
             asItem == DescriptorsOf(data, {"coin_arc", "coin_line", "coin_wave", "coin", "gem",
                                            "star", "spring", "magnet_item", "dash_item"})
             obstacles == Appended(factory.activeObstacles, factory'.activeObstacles)
             items == Appended(factory.activeItems, factory'.activeItems)
         IN  /\ asObstacle \cap asItem = {}
             /\ SubSeq(factory'.activeObstacles, 1, Len(factory.activeObstacles))
                  = factory.activeObstacles
             /\ SubSeq(factory'.activeItems, 1, Len(factory.activeItems))
                  = factory.activeItems
             /\ Len(obstacles) = Cardinality(asObstacle)
             /\ Len(items) = Cardinality(asItem)
             /\ Cardinality(Range(obstacles)) = Len(obstacles)
             /\ Cardinality(Range(items)) = Len(items)
             /\ Range(obstacles) \cap Range(factory.activeObstacles) = {}
             /\ Range(items) \cap Range(factory.activeItems) = {}
             /\ \A id \in Range(obstacles) :
                  /\ factory'.obstacles[id].isActive
                  /\ factory'.obstacles[id].obstacleType \in {"spike", "saw", "block"}
             /\ \A id \in Range(items) :
                  /\ factory'.items[id].isActive
                  /\ factory'.items[id].itemType \in {"coin", "gem", "star"}]_vars

\* A pattern with an obstacle, an unknown kind and an item was spawned: one
\* obstacle and one item were added for its three descriptors.
C36_Witness ==
    /\ fLast.op = "spawnFromPattern"
    /\ fLast.pattern[1].name = "mid_011"
    /\ Len(PatternData(fLast.pattern[1])[1]) = 3
    /\ Len(factory.activeObstacles) = fLast.preObstacles + 1
    /\ Len(factory.activeItems) = fLast.preItems + 1

(***************************************************************************)
(* Claims about the PlayScene                                              *)
(***************************************************************************)

\* C17: in every frame played, updateGameplay spawns patterns before it
\* updates the entities' kinematics, that before it resolves collisions, and
\* that before it reports collections to the ProgressManager.
C17_TickOrder ==
    LET t == scene.frame.trace
        First(name) == CHOOSE i \in DOMAIN t :
                         t[i] = name /\ \A j \in 1..(i - 1) : t[j] # name
    IN  t # <<>> =>
          /\ First("spawnPatterns") < First("entityFactory.update")
          /\ First("entityFactory.update") < First("entityFactory.processCollisions")
          /\ \A i \in DOMAIN t :
               t[i] = "progressManager.collectItem" =>
                   First("entityFactory.processCollisions") < i

\* C19: a frame requests and instantiates a pattern only if
\* floor(distance / 200) exceeds floor(lastPatternSpawn / 200), and at most
\* one; a spawn sets lastPatternSpawn to the distance, and a frame without a
\* spawn leaves lastPatternSpawn and the active lists as they were, so no
\* second spawn occurs before the distance crosses the next multiple of 200.
C19_SpawnCadence ==
    [][scene'.ticks = scene.ticks + 1 =>
         LET fr   == scene'.frame
             d    == scene'.gameState.distance
             unit == 200 * MetreUnits
         IN  /\ fr.spawned <= 1
             /\ fr.requested = fr.spawned
             /\ fr.lastBefore = scene.lastPatternSpawn
             /\ fr.spawned = 1 =>
                  /\ d \div unit > scene.lastPatternSpawn \div unit
                  /\ scene'.lastPatternSpawn = d
             /\ fr.spawned = 0 =>
                  /\ scene'.lastPatternSpawn = scene.lastPatternSpawn
                  /\ factory'.activeObstacles = fr.obstaclesBefore
                  /\ factory'.activeItems = fr.itemsBefore
             /\ d \div unit = scene.lastPatternSpawn \div unit => fr.spawned = 0]_vars

\* A frame that spawned the catalog's pattern, after an earlier spawn.
C19_Witness ==
    /\ pLast.op = "updateGameplay"
    /\ scene.frame.spawned = 1
    /\ scene.frame.lastBefore > 0
    /\ scene.lastPatternSpawn = scene.gameState.distance
    /\ Len(factory.activeItems) = Len(scene.frame.itemsBefore) + 1
    /\ Len(factory.activeObstacles) = Len(scene.frame.obstaclesBefore) + 1

\* C21: a frame whose collision resolution reports playerHit resets the
\* ProgressManager's combo and adds one to its death counter, so the combo
\* after the frame counts only what the frame collected after the death.
C21_DeathBreaksComboInPlay ==
    [][(/\ scene'.ticks = scene.ticks + 1
        /\ \E i \in DOMAIN scene'.frame.trace :
             scene'.frame.trace[i] = "handlePlayerDeath") =>
         /\ pm'.stats.totalDeaths = pm.stats.totalDeaths + 1
         /\ pm'.combo = Cardinality({i \in DOMAIN scene'.frame.trace :
                                       scene'.frame.trace[i] = "progressManager.collectItem"})]_vars

\* C28: while the game is paused, an update tick or a jump, dash or slide
\* input changes none of the gameplay state (gameState, the spawn mark, the
\* player, the factory with its pools and active lists, the progression
\* state and its store), and resuming changes only the paused flag, so the
\* first tick after the resume starts from the state the pause found.
C28_PauseGates ==
    [][/\ (/\ scene.gameState.paused
           /\ \/ scene'.ticks = scene.ticks + 1
              \/ scene'.inputs = scene.inputs + 1)
          => /\ scene'.gameState = scene.gameState
             /\ scene'.lastPatternSpawn = scene.lastPatternSpawn
             /\ scene'.body = scene.body
             /\ scene'.over = scene.over
             /\ factory' = factory
             /\ pm' = pm
             /\ localStorage' = localStorage
       /\ (scene.gameState.paused /\ ~scene'.gameState.paused)
          => /\ scene' = [scene EXCEPT !.gameState.paused = FALSE]
             /\ factory' = factory
             /\ pm' = pm
             /\ localStorage' = localStorage]_vars

\* A jump was pressed on the ground while the game was paused, after a
\* paused frame that followed frames in which the game advanced.
C28_Witness ==
    /\ scene.gameState.paused
    /\ pLast.op = "handleInput"
    /\ pLast.arg = "jump"
    /\ scene.body.onGround
    /\ scene.frame = NoFrame
    /\ scene.ticks >= 2
    /\ scene.gameState.distance > 0
    /\ Len(factory.activeObstacles) > 0

\* A step that is a gameplay tick.
IsTick == scene'.ticks = scene.ticks + 1

\* C37: at most one life is lost per gameplay tick however many deadly
\* obstacles overlap the player; lives is within 0..3 in every reachable
\* state; the game-over transition is triggered in the tick in which lives
\* reaches 0 and in no other step.
C37_LivesAndGameOver ==
    [][/\ scene.gameState.lives \in 0..StartLives
       /\ scene'.gameState.lives \in 0..StartLives
       /\ IsTick => scene'.gameState.lives >= scene.gameState.lives - 1
       /\ (scene'.over /\ ~scene.over)
            <=> (IsTick /\ scene.gameState.lives > 0 /\ scene'.gameState.lives = 0)]_vars


\* The collected items that are still in activeItems.
CollectedActive(f) == {id \in Range(f.activeItems) : f.items[id].isCollected}

\* C31: an item collected in a frame is neither deactivated nor removed in
\* that frame: after the frame the collected items in activeItems are those
\* the frame collected, all still active.  They stay there, collected, with
\* their position and value, until the next frame, whose
\* EntityFactory.update deactivates them and removes them from activeItems
\* before anything else is done.
C31_DeferredRetirement ==
    [][/\ scene'.ticks = scene.ticks + 1 =>
            LET swept == update(factory, clock' - clock)
            IN  /\ scene'.frame.itemsBefore = swept.activeItems
                /\ \A id \in CollectedActive(factory) :
                      /\ id \notin Range(swept.activeItems)
                      /\ ~swept.items[id].isActive
                /\ Cardinality(CollectedActive(factory')) = Len(fLast'.itemsCollected)
                /\ \A id \in CollectedActive(factory') : factory'.items[id].isActive
       /\ (scene'.ticks = scene.ticks /\ factory' # FactoryReady(factory.patterns)) =>
            \A id \in CollectedActive(factory) :
              /\ id \in CollectedActive(factory')
              /\ factory'.items[id].x = factory.items[id].x
              /\ factory'.items[id].y = factory.items[id].y
              /\ factory'.items[id].value = factory.items[id].value]_vars

\* After a frame: an item collected in the frame before has been swept (it
\* is inactive and off the list while its animation is still running), and
\* the frame collected another one.
C31_Witness ==
    /\ fLast.op = "processCollisions"
    /\ Len(fLast.itemsCollected) > 0
    /\ \E id \in Range(factory.tweens) :
         /\ factory.items[id].isCollected
         /\ ~factory.items[id].isActive
         /\ id \notin Range(factory.activeItems)

\* The items of kind `kind` a frame collected: those left collected in the
\* active list.
CollectedOfKind(f, kind) == {id \in CollectedActive(f) : f.items[id].itemType = kind}

\* C38: for every coin, gem or star collected in a gameplay tick the
\* ProgressManager is told the item's kind: the counter of that kind, and
\* no other, grows by one per item, and the award of an item collected alone
\* is its kind's base score (coin 10, gem 50, star 100) times its value,
\* under the combo multiplier.
C38_PerKindCounters ==
    [][(IsTick /\ Len(fLast'.itemsCollected) > 0) =>
         /\ pm'.coins = pm.coins + Cardinality(CollectedOfKind(factory', "coin"))
         /\ pm'.gems = pm.gems + Cardinality(CollectedOfKind(factory', "gem"))
         /\ pm'.stars = pm.stars + Cardinality(CollectedOfKind(factory', "star"))
         /\ \A id \in CollectedActive(factory') :
              Len(fLast'.itemsCollected) = 1 =>
                pm'.score = collectItem(pm, factory'.items[id].itemType,
                                        factory'.items[id].value, clock').score]_vars

\* C39: a hit that is not the last makes the player invulnerable for 2 s,
\* and a gameplay tick whose collision resolution finds the player
\* invulnerable takes no life.
C39_RespawnInvulnerability ==
    [][IsTick =>
         LET pl == PlayerUpdate(update(factory, clock' - clock).player[1].x,
                                update(factory, clock' - clock).player[1].y,
                                scene.body, clock' - clock)
         IN  /\ (scene'.gameState.lives < scene.gameState.lives /\ ~scene'.over) =>
                  /\ scene'.body.invulnerable
                  /\ scene'.body.invulnerabilityTimer = 2000
             /\ pl.body.invulnerable =>
                  scene'.gameState.lives = scene.gameState.lives]_vars

\* The player stands at ground level.
AtGroundLevel(f) == f.player[1].y = GroundY - HitboxH \div 2

\* C40: after a jump that succeeded with the player standing on the ground,
\* the next Player.update moves the player up (y decreases) and leaves
\* onGround false; a jump that succeeds in the air uses up the one charge,
\* so that one ground jump and one double jump succeed between two landings.
C40_JumpLeavesGround ==
    [][/\ ( /\ IsTick
            /\ pLast.op = "handleInput" /\ pLast.arg = "jump" /\ pLast.saved
            /\ AtGroundLevel(factory)
            /\ scene'.gameState.lives = scene.gameState.lives ) =>
            /\ factory'.player[1].y < factory.player[1].y
            /\ ~scene'.body.onGround
       /\ ( /\ pLast'.op = "handleInput" /\ pLast'.arg = "jump" /\ pLast'.saved
            /\ ~scene.body.onGround ) =>
            /\ scene.body.jumpCharges = 1
            /\ scene'.body.jumpCharges = 0
            /\ ~scene'.body.canDoubleJump
            /\ ~jump(scene'.body).ok]_vars

(***************************************************************************)
(* Specifications                                                          *)
(***************************************************************************)

\* The StateMachine alone.
Init == SmInit /\ FactoryIdle /\ ProgressIdle /\ SceneIdle

Next ==
    \/ \E name \in StateNames, state \in StateObjs :
         addState(name, state) /\ UNCHANGED <<factoryVars, progressVars, sceneVars>>
    \/ \E name \in StateNames : pushState(name) /\ UNCHANGED <<factoryVars, progressVars, sceneVars>>
    \/ \E name \in StateNames : replaceState(name) /\ UNCHANGED <<factoryVars, progressVars, sceneVars>>
    \/ popState /\ UNCHANGED <<factoryVars, progressVars, sceneVars>>
    \/ smUpdate /\ UNCHANGED <<factoryVars, progressVars, sceneVars>>
    \/ reset /\ UNCHANGED <<factoryVars, progressVars, sceneVars>>

Spec == Init /\ [][Next]_vars

\* The EntityFactory's pools and collision resolution, driven call by call.
SpecPoolInit == SmInit /\ PoolInit /\ ProgressIdle /\ SceneIdle

SpecPoolNext ==
    \/ /\ scenario = "obstacles"
       /\ \E p \in PoolPoints, data \in PoolData :
            DoSpawnObstacle("spike", p[1], p[2], data)
       /\ UNCHANGED <<smVars, progressVars, sceneVars>>
    \/ /\ scenario = "collide"
       /\ \E type \in CollideTypes, p \in CollidePoints :
            DoSpawnObstacle(type, p[1], p[2], NoData)
       /\ UNCHANGED <<smVars, progressVars, sceneVars>>
    \/ /\ scenario = "items"
       /\ \E p \in PoolPoints : DoSpawnItem("coin", p[1], p[2], NoData)
       /\ UNCHANGED <<smVars, progressVars, sceneVars>>
    \/ \E delta \in Deltas : DoUpdate(delta) /\ UNCHANGED <<smVars, progressVars, sceneVars>>
    \/ DoProcessCollisions /\ UNCHANGED <<smVars, progressVars, sceneVars>>
    \/ DoTweenComplete /\ UNCHANGED <<smVars, progressVars, sceneVars>>
    \/ DoClearAllEntities /\ UNCHANGED <<smVars, progressVars, sceneVars>>
    \/ DoDestroy /\ UNCHANGED <<smVars, progressVars, sceneVars>>

SpecPool == SpecPoolInit /\ [][SpecPoolNext]_vars

\* Pattern selection and instantiation over every catalog.
SpecMixedInit == SmInit /\ MixedInit /\ ProgressIdle /\ SceneIdle

SpecMixedNext ==
    \/ DoProcessCollisions /\ UNCHANGED <<smVars, progressVars, sceneVars>>
    \/ \E delta \in Deltas : DoUpdate(delta) /\ UNCHANGED <<smVars, progressVars, sceneVars>>
    \/ DoTweenComplete /\ UNCHANGED <<smVars, progressVars, sceneVars>>

SpecMixed == SpecMixedInit /\ [][SpecMixedNext]_vars

SpecSelectInit == SmInit /\ SelectInit /\ ProgressIdle /\ SceneIdle

SpecSelectNext ==
    \E difficulty \in Difficulties, distance \in Distances, draw \in Draws :
      DoSelectNextPattern(difficulty, distance, draw) /\ UNCHANGED <<smVars, progressVars, sceneVars>>

SpecSelect == SpecSelectInit /\ [][SpecSelectNext]_vars

SpecPatternInit == SmInit /\ PatternInit /\ ProgressIdle /\ SceneIdle

SpecPatternNext ==
    \/ \E difficulty \in Difficulties, distance \in Distances, draw \in Draws :
         DoSelectNextPattern(difficulty, distance, draw) /\ UNCHANGED <<smVars, progressVars, sceneVars>>
    \/ DoSpawnFromPattern(1200, 0) /\ UNCHANGED <<smVars, progressVars, sceneVars>>

SpecPattern == SpecPatternInit /\ [][SpecPatternNext]_vars

\* The ProgressManager, driven call by call.
SpecProgressInit == SmInit /\ ProgressInit /\ SceneIdle

SpecProgressNext ==
    \/ /\ scenario = "chain"
       /\ DoCollectItem("coin", 1)
       /\ UNCHANGED <<smVars, factoryVars, sceneVars>>
    \/ /\ scenario = "combo"
       /\ DoCollectItem("star", 1)
       /\ UNCHANGED <<smVars, factoryVars, sceneVars>>
    \/ /\ scenario \in {"combo", "distance"}
       /\ DoRecordAction("death")
       /\ UNCHANGED <<smVars, factoryVars, sceneVars>>
    \/ /\ scenario \in {"distance", "storage"}
       /\ \E distance \in DistanceSteps : DoAddDistance(distance)
       /\ UNCHANGED <<smVars, factoryVars, sceneVars>>
    \/ /\ scenario = "distance"
       /\ \E speed \in Speeds : DoUpdateSpeed(speed)
       /\ UNCHANGED <<smVars, factoryVars, sceneVars>>
    \/ /\ \E delta \in ProgressDeltas :
            /\ scenario = "chain" => delta > ComboTimeout
            /\ scenario \in {"distance", "storage"} => delta <= ComboTimeout
            /\ DoProgressUpdate(delta)
       /\ UNCHANGED <<smVars, factoryVars, sceneVars>>
    \/ /\ scenario = "storage"
       /\ \E writeOk \in BOOLEAN : DoEndGame(writeOk)
       /\ UNCHANGED <<smVars, factoryVars, sceneVars>>
    \/ /\ scenario \in {"combo", "distance"}
       /\ DoResetSession
       /\ UNCHANGED <<smVars, factoryVars, sceneVars>>
    \/ /\ scenario = "storage"
       /\ \E readOk \in BOOLEAN : DoConstruct(readOk)
       /\ UNCHANGED <<smVars, factoryVars, sceneVars>>

SpecProgress == SpecProgressInit /\ [][SpecProgressNext]_vars

\* The PlayScene, driven frame by frame.
SpecSceneInit == SmInit /\ SceneInit

SpecPauseInit == PauseInit /\ SmInit

SpecPauseNext ==
    \/ /\ \E draw \in Draws, delta \in PauseDeltas : DoUpdateGameplay(delta, draw)
       /\ UNCHANGED smVars
    \/ /\ \E delta \in PauseDeltas : DoUpdatePaused(delta)
       /\ UNCHANGED smVars
    \/ DoHandlePause /\ UNCHANGED smVars
    \/ DoResumeCallback /\ UNCHANGED smVars
    \/ /\ \E action \in Inputs : DoHandleInput(action)
       /\ UNCHANGED smVars
    \/ DoTweenComplete /\ UNCHANGED <<smVars, progressVars, sceneVars>>

SpecPause == SpecPauseInit /\ [][SpecPauseNext]_vars

SpecLivesInit == LivesInit /\ SmInit

SpecLivesNext ==
    \/ /\ \E delta \in LivesDeltas : DoUpdateGameplay(delta, 0)
       /\ UNCHANGED smVars
    \/ DoEnter /\ UNCHANGED smVars
    \/ DoCreate /\ UNCHANGED smVars

\* The PlayScene over a catalog of standing obstacles.
SpecLives == SpecLivesInit /\ [][SpecLivesNext]_vars

SpecSceneNext ==
    \/ /\ \E delta \in SceneDeltas, draw \in Draws : DoUpdateGameplay(delta, draw)
       /\ UNCHANGED smVars
    \/ DoTweenComplete /\ UNCHANGED <<smVars, progressVars, sceneVars>>
    \/ DoEnter /\ UNCHANGED smVars
    \/ DoCreate /\ UNCHANGED smVars

SpecScene == SpecSceneInit /\ [][SpecSceneNext]_vars

====
